---- MODULE Spec2Model ----
(***************************************************************************)
(* A model of the core of the redox kernel: the context switcher           *)
(* (src/context/switch.rs), the context record and its file table          *)
(* (src/context/context.rs) and the register access of ptrace              *)
(* (src/ptrace.rs).                                                         *)
(*                                                                         *)
(* Option<T> is modelled as a set with at most one element: None is {}     *)
(* and Some(x) is {x}.                                                     *)
(***************************************************************************)
EXTENDS Integers, Sequences, FiniteSets, TLC

VARIABLES
    online,     \* the CPUs that were brought up (fixed after boot)
    ctx,        \* the context table: ContextId -> Context, for the ids in it
    current,    \* CONTEXT_ID, per CPU: the id of the context the CPU runs
    pc,         \* per CPU: where the CPU is in switch()
    lock,       \* arch::CONTEXT_SWITCH_LOCK
    swtime,     \* per CPU: the local switch_time of the switch() in progress
    slot,       \* SWITCH_RESULT, per CPU: Option<SwitchResult>
    wlock,      \* per context: the CPU whose switch() holds its write lock
    now,        \* time::monotonic()
    ret,        \* per CPU: what the last switch() returned
    woken,      \* the contexts the last update pass turned Blocked -> Runnable
    panic,      \* a panic!/expect/abort of the switcher was hit
    sigentry,   \* per context: the state saved when its signal was entered
    restored,   \* the contexts the last update pass restored from a signal
    files,      \* Context::files of one file table: Vec<Option<FileDescriptor>>
    fres,       \* the last file-table operation and what it returned
    next_id,    \* UserInner::next_id
    todo,       \* UserInner::todo: the queue of packets awaiting the server
    done,       \* UserInner::done: the completions, PacketId -> result word
    unmounting, \* UserInner::unmounting
    nonblock,   \* UserInner::flags & O_NONBLOCK == O_NONBLOCK
    cl,         \* per caller: where it is in call() and what call() returned
    srv,        \* the server: its read() in progress, what its calls returned
    answered,   \* the completions the server wrote: PacketId -> result word
    grants,     \* the grants of the server's address space
    server,     \* whether the server's context (UserInner::context) exists
    cres,       \* the last capture or release and what it returned
    space,      \* per capturing context: its address space (AddrSpace::current)
    aslock,     \* per address space: the context that holds its write lock
    capt,       \* per capturing context: where it is in capture_inner
    funmap,     \* addr_space.grants.funmap of the caller: Region -> address
    mapped,     \* the fmap completions: caller address u, server address s,
                \* size, and the pages of the grant
    fmres,      \* the last fmap completion or funmap and what it did
    sess,       \* SESSIONS: the session the map holds for the traced pid, or 0
    nsess,      \* how many Session objects were created
    sdata,      \* per Session object: SessionData (breakpoint, events, file_id)
    waiting,    \* per Session object: who is in the list of its tracer and
                \* tracee WaitCondition
    tr,         \* the tracer thread: where it is in wait(pid)
    te,         \* the tracee: where it is in breakpoint_callback
    pres,       \* the last session operation and what it returned
    sh,         \* an add_file_min on a file table other contexts share
    fmaptab,    \* UserInner::fmap: the ids of the pending fmaps
    wres        \* the last write() of the server: the packets of its buffer
                \* and the result words it stored

schedVars == <<online, ctx, current, pc, lock, swtime, slot, wlock, now, ret,
               woken, panic, sigentry, restored>>
fileVars == <<files, fres>>
schemeVars == <<next_id, todo, done, unmounting, nonblock, cl, srv, answered>>
captureVars == <<grants, server, cres>>
lockVars == <<space, aslock, capt>>
funmapVars == <<funmap, mapped, fmres>>
ptraceVars == <<sess, nsess, sdata, waiting, tr, te, pres>>
shareVars == <<sh>>
fmapVars == <<fmaptab, wres>>
moreVars == <<lockVars, funmapVars, ptraceVars, shareVars, fmapVars>>
vars == <<online, ctx, current, pc, lock, swtime, slot, wlock, now, ret,
          woken, panic, sigentry, restored, files, fres,
          next_id, todo, done, unmounting, nonblock, cl, srv, answered,
          grants, server, cres, space, aslock, capt,
          funmap, mapped, fmres, sess, nsess, sdata, waiting, tr, te, pres,
          sh, fmaptab, wres>>

(***************************************************************************)
(* Bounds of the model.                                                    *)
(***************************************************************************)
NumCpus == 2
NumContexts == 4
MaxTime == 2
MaxPending == 1
NumSignals == 2
MaxReg == 1
CONTEXT_MAX_FILES == 3
NumDescriptors == 2
NumCallers == 2
MaxId == 2
WordMax == 2
MaxErrno == 1
PacketSize == 2
AddrBits == 4
PAGE_SIZE == 4

Cpus == 0 .. (NumCpus - 1)
Ids == 1 .. NumContexts
Times == 0 .. MaxTime
Signals == 1 .. NumSignals
RegVals == 0 .. MaxReg

None == {}
Some(x) == {x}
Unwrap(o) == CHOOSE x \in o : TRUE


(***************************************************************************)
(* The context record (Context, context.rs:173-260), restricted to the     *)
(* fields the switcher reads or writes.  kstack is a record of the stack   *)
(* contents outside the interrupt frame (data) and the singlestep flag of  *)
(* the interrupt frame stored in it (ss); regs says whether Context::regs  *)
(* points at an interrupt frame.                                           *)
(***************************************************************************)
Statuses == {"Runnable", "Blocked", "Stopped", "Exited"}
KStacks == [data : RegVals, ss : BOOLEAN]
KSigs == [arch : RegVals, kfx : RegVals, kstack : KStacks, sig : Signals]

\* Context::new (context.rs:333-377)
NewContext ==
    [status |-> "Blocked", running |-> FALSE, cpu_id |-> None,
     ptrace_stop |-> FALSE, pending |-> << >>, wake |-> None,
     arch |-> 0, kfx |-> 0, kstack |-> [data |-> 0, ss |-> FALSE],
     ksig |-> None, ksig_restore |-> FALSE, regs |-> FALSE,
     switch_time |-> 0, cpu_time |-> 0,
     addr_space |-> None, files |-> << >>]

\* Context::block (context.rs:380-388)
block(c) ==
    IF c.status = "Runnable" THEN [c EXCEPT !.status = "Blocked"] ELSE c

\* an unblock that makes a context Runnable whatever its status is
unblock_AnyStatus(c) == [c EXCEPT !.status = "Runnable"]

\* Context::unblock (context.rs:391-407); the wake-up IPI changes no state
unblock(c) ==
    IF c.status = "Blocked" THEN [c EXCEPT !.status = "Runnable"] ELSE c

\* signal::is_user_handled: whether the action of a signal is a user handler
IsUserHandled(sig) == sig = 1

\* arch::Context::signal_stack: patch the registers to enter signal_handler(sig)
signal_stack(arch, sig) == (arch + sig) % (MaxReg + 1)

(***************************************************************************)
(* ptrace::regs_for / regs_for_mut (ptrace.rs:400-439): which interrupt    *)
(* frame a context's registers are read from: the one in the signal backup *)
(* stack ("backup"), the one in the live kernel stack ("primary") or none. *)
(***************************************************************************)
regs_for(c) ==
    IF c.ksig # None /\ ~IsUserHandled(Unwrap(c.ksig).sig)
    THEN (IF c.regs THEN "backup" ELSE "none")
    ELSE (IF c.regs THEN "primary" ELSE "none")

is_singlestep(c) ==
    CASE regs_for(c) = "backup"  -> Unwrap(c.ksig).kstack.ss
      [] regs_for(c) = "primary" -> c.kstack.ss
      [] OTHER                   -> FALSE

set_singlestep(c, b) ==
    CASE regs_for(c) = "backup"  ->
            [c EXCEPT !.ksig = Some([Unwrap(c.ksig) EXCEPT !.kstack.ss = b])]
      [] regs_for(c) = "primary" -> [c EXCEPT !.kstack.ss = b]
      [] OTHER                   -> c

(***************************************************************************)
(* update (switch.rs:18-65), one step (a)-(d) at a time.                   *)
(***************************************************************************)
\* switch.rs:19-23: take ownership if not already owned
TakeOwnership(c, cpu) ==
    IF c.cpu_id = None THEN [c EXCEPT !.cpu_id = Some(cpu)] ELSE c

\* an update pass that restores no context
RestoreDue_Never(c) == FALSE

\* switch.rs:26: the restore is due
RestoreDue(c) == c.ksig_restore /\ ~c.running

\* switch.rs:29: ksig.take().expect(...) panics
RestorePanics(c) == RestoreDue(c) /\ c.ksig = None

\* a restore that takes the backup and leaves ksig_restore set
RestoreSignal_KeepsFlag(c) ==
    LET was_singlestep == is_singlestep(c)
        ksig == Unwrap(c.ksig)
        r == [c EXCEPT !.ksig = None, !.arch = ksig.arch, !.kfx = ksig.kfx,
                       !.kstack = ksig.kstack]
    IN unblock(set_singlestep(r, was_singlestep))

\* a restore that leaves the FPU area as the signal handler left it
RestoreSignal_SkipsFpu(c) ==
    LET was_singlestep == is_singlestep(c)
        ksig == Unwrap(c.ksig)
        r == [c EXCEPT !.ksig = None, !.arch = ksig.arch,
                       !.kstack = ksig.kstack, !.ksig_restore = FALSE]
    IN unblock(set_singlestep(r, was_singlestep))

\* switch.rs:27-47: restore from the signal backup, keeping the singlestep flag
RestoreSignal(c) ==
    LET was_singlestep == is_singlestep(c)
        ksig == Unwrap(c.ksig)
        r == [c EXCEPT !.ksig = None, !.arch = ksig.arch, !.kfx = ksig.kfx,
                       !.kstack = ksig.kstack, !.ksig_restore = FALSE]
    IN unblock(set_singlestep(r, was_singlestep))

\* switch.rs:50-53: unblock when there are pending signals
WakeOnPending(c) ==
    IF c.status = "Blocked" /\ c.pending # << >> THEN unblock(c) ELSE c

\* a wake-up that does not compare the time
WakeFromSleep_Early(c, t) ==
    IF c.status = "Blocked" /\ c.wake # None
    THEN unblock([c EXCEPT !.wake = None])
    ELSE c

\* a wake-up that leaves the wake time set
WakeFromSleep_KeepsWake(c, t) ==
    IF c.status = "Blocked" /\ c.wake # None
    THEN (IF t >= Unwrap(c.wake) THEN unblock(c) ELSE c)
    ELSE c

\* switch.rs:55-64: wake from sleep
WakeFromSleep(c, t) ==
    IF c.status = "Blocked" /\ c.wake # None
    THEN (IF t >= Unwrap(c.wake) THEN unblock([c EXCEPT !.wake = None]) ELSE c)
    ELSE c

update(c, cpu, t) ==
    LET c1 == TakeOwnership(c, cpu)
        c2 == IF RestoreDue(c1) THEN RestoreSignal(c1) ELSE c1
        c3 == WakeOnPending(c2)
    IN WakeFromSleep(c3, t)

\* a selection predicate that ignores the owner of the context
runnable_AnyCpu(c, cpu) ==
    ~c.running /\ ~c.ptrace_stop /\ c.status = "Runnable"

\* switch.rs:86-89
runnable(c, cpu) ==
    ~c.running /\ ~c.ptrace_stop /\ c.status = "Runnable" /\ c.cpu_id = Some(cpu)

(***************************************************************************)
(* The selection loop of switch() (switch.rs:133-158).                     *)
(***************************************************************************)
RECURSIVE Ascending(_)
\* BTreeMap iteration: the ids of a set in increasing order
Ascending(S) ==
    IF S = {} THEN << >>
    ELSE LET m == CHOOSE x \in S : \A y \in S : x <= y
         IN <<m>> \o Ascending(S \ {m})

\* a search that always starts at the lowest id
SearchOrder_FromLowest(ids, from) == Ascending(ids \ {from})

\* switch.rs:133-141: the ids greater than the current one, then the ids less
SearchOrder(ids, from) ==
    Ascending({i \in ids : i > from}) \o Ascending({i \in ids : i < from})

RECURSIVE FirstRunnable(_, _, _)
\* switch.rs:143-158: the first context of the order that is runnable
FirstRunnable(order, table, cpu) ==
    IF order = << >> THEN None
    ELSE IF runnable(table[Head(order)], cpu) THEN Some(Head(order))
    ELSE FirstRunnable(Tail(order), table, cpu)

\* a selection that searches the ids greater than the current one only
SelectTarget_NoWrap(table, from, cpu) ==
    FirstRunnable(Ascending({i \in DOMAIN table : i > from}), table, cpu)

SelectTarget(table, from, cpu) ==
    FirstRunnable(SearchOrder(DOMAIN table, from), table, cpu)

(***************************************************************************)
(* The swap of switch() (switch.rs:162-192).                               *)
(***************************************************************************)
\* u128::saturating_sub
saturating_sub(a, b) == IF a >= b THEN a - b ELSE 0

\* a switch-out that stores the last time slice instead of adding it
SwitchOut_OverwritesCpuTime(c, t) ==
    [c EXCEPT !.running = FALSE,
              !.cpu_time = saturating_sub(t, c.switch_time)]

\* a switch-out that leaves the old context marked running
SwitchOut_KeepsRunning(c, t) ==
    [c EXCEPT !.cpu_time = @ + saturating_sub(t, c.switch_time)]

\* switch.rs:165-167: set old context as not running and update CPU time
SwitchOut(c, t) ==
    [c EXCEPT !.running = FALSE,
              !.cpu_time = @ + saturating_sub(t, c.switch_time)]

\* a switch-in that pops a pending signal whatever ksig holds
ToSig_Always(c) ==
    IF c.pending # << >> THEN Some(Head(c.pending)) ELSE None

\* switch.rs:148-150: the signal to deliver
ToSig(c) ==
    IF c.ksig = None /\ c.pending # << >> THEN Some(Head(c.pending)) ELSE None

\* switch.rs:181-185: assert!(to_context.ksig.is_none()) fails
AssertFails(c) == ToSig(c) # None /\ c.ksig # None

\* switch.rs:148-150, 169-171, 181-192: pop the signal, set new context as
\* running, stamp its switch time, and enter the signal handler
SwitchIn(c, t) ==
    LET to_sig == ToSig(c)
        c1 == IF to_sig # None THEN [c EXCEPT !.pending = Tail(@)] ELSE c
        c2 == [c1 EXCEPT !.running = TRUE, !.switch_time = t]
    IN IF to_sig # None
       THEN [c2 EXCEPT
               !.ksig = Some([arch |-> c2.arch, kfx |-> c2.kfx,
                              kstack |-> c2.kstack, sig |-> Unwrap(to_sig)]),
               !.arch = signal_stack(c2.arch, Unwrap(to_sig))]
       ELSE c2

(***************************************************************************)
(* switch() (switch.rs:96-220) and switch_finish_hook (switch.rs:72-81),   *)
(* by CPU k.                                                               *)
(***************************************************************************)
\* a compare-exchange that succeeds whatever the flag holds
CanAcquire_Always(l) == TRUE

\* switch.rs:102: compare_exchange_weak(false, true) succeeds
CanAcquire(l) == l = FALSE

\* switch.rs:99-107: claim the global flag, read the time
SwitchAcquire(k) ==
    /\ ~panic
    /\ pc[k] = "run"
    /\ CanAcquire(lock)
    /\ lock' = TRUE
    /\ swtime' = [swtime EXCEPT ![k] = now]
    /\ pc' = [pc EXCEPT ![k] = "locked"]
    /\ woken' = {}
    /\ restored' = {}
    /\ sigentry' = [c \in Ids |-> IF c \in restored THEN None ELSE sigentry[c]]
    /\ ret' = [ret EXCEPT ![k] = "none"]
    /\ UNCHANGED <<online, ctx, current, slot, wlock, now, panic, fileVars, schemeVars, captureVars, moreVars>>

\* switch.rs:114-131: lock the current context, run update on every context
SwitchUpdate(k) ==
    /\ ~panic
    /\ pc[k] = "locked"
    /\ \A c \in DOMAIN ctx : wlock[c] = None
    /\ IF \E c \in DOMAIN ctx : RestorePanics(TakeOwnership(ctx[c], k))
       THEN /\ panic' = TRUE
            /\ UNCHANGED <<ctx, pc, wlock, woken, restored>>
       ELSE /\ ctx' = [c \in DOMAIN ctx |-> update(ctx[c], k, now)]
            /\ wlock' = [wlock EXCEPT ![current[k]] = Some(k)]
            /\ pc' = [pc EXCEPT ![k] = "updated"]
            /\ woken' = {c \in DOMAIN ctx : ctx[c].status = "Blocked"
                                     /\ ctx'[c].status = "Runnable"}
            /\ restored' = {c \in DOMAIN ctx : RestoreDue(ctx[c])}
            /\ UNCHANGED panic
    /\ UNCHANGED <<online, current, lock, swtime, slot, now, ret, sigentry,
                   fileVars, schemeVars, captureVars, moreVars>>

\* switch.rs:133-220: select the next context and swap, or return false
SwitchSelect(k) ==
    LET from == current[k]
        target == SelectTarget(ctx, from, k)
    IN /\ ~panic
       /\ pc[k] = "updated"
       /\ \A c \in DOMAIN ctx \ {from} : wlock[c] = None
       /\ IF target # None
          THEN LET to == Unwrap(target) IN
               IF AssertFails(ctx[to])
               THEN /\ panic' = TRUE
                    /\ UNCHANGED <<ctx, current, wlock, slot, pc, ret,
                                   sigentry, lock, swtime, woken>>
               ELSE
               /\ ctx' = [ctx EXCEPT ![from] = SwitchOut(ctx[from], swtime[k]),
                                     ![to] = SwitchIn(ctx[to], swtime[k])]
               /\ current' = [current EXCEPT ![k] = to]
               /\ wlock' = [wlock EXCEPT ![to] = Some(k)]
               /\ slot' = [slot EXCEPT ![k] =
                             Some([prev_lock |-> from, next_lock |-> to])]
               /\ pc' = [pc EXCEPT ![k] = "hook"]
               /\ ret' = [ret EXCEPT ![k] = "true"]
               /\ sigentry' =
                      IF ToSig(ctx[to]) # None
                      THEN [sigentry EXCEPT ![to] =
                              Some([arch |-> ctx[to].arch, kfx |-> ctx[to].kfx,
                                    kstack |-> ctx[to].kstack])]
                      ELSE sigentry
               /\ UNCHANGED <<lock, swtime, woken, panic>>
          ELSE /\ lock' = FALSE
               /\ wlock' = [wlock EXCEPT ![from] = None]
               /\ pc' = [pc EXCEPT ![k] = "run"]
               /\ ret' = [ret EXCEPT ![k] = "false"]
               /\ swtime' = [swtime EXCEPT ![k] = 0]
               /\ UNCHANGED <<ctx, current, slot, woken, sigentry, panic>>
       /\ UNCHANGED <<online, now, restored, fileVars, schemeVars, captureVars, moreVars>>

\* a hook that releases the write lock of the previous context only
force_write_unlock_PrevOnly(w, r) == [w EXCEPT ![r.prev_lock] = None]

\* switch.rs:74-75: prev_lock.force_write_unlock(), next_lock likewise
force_write_unlock(w, r) ==
    [w EXCEPT ![r.prev_lock] = None, ![r.next_lock] = None]

\* switch.rs:72-81: release both write locks and the global flag
SwitchFinishHook(k) ==
    /\ ~panic
    /\ pc[k] = "hook"
    /\ IF slot[k] # None
       THEN LET r == Unwrap(slot[k]) IN
            /\ slot' = [slot EXCEPT ![k] = None]
            /\ wlock' = force_write_unlock(wlock, r)
            /\ lock' = FALSE
            /\ pc' = [pc EXCEPT ![k] = "run"]
            /\ swtime' = [swtime EXCEPT ![k] = 0]
            /\ UNCHANGED <<panic, woken>>
       ELSE /\ panic' = TRUE
            /\ UNCHANGED <<slot, wlock, lock, pc, swtime, woken>>
    /\ UNCHANGED <<online, ctx, current, now, ret, sigentry, restored,
                   fileVars, schemeVars, captureVars, moreVars>>

(***************************************************************************)
(* What the kernel does on CPU k outside switch(), on behalf of the        *)
(* context running there.  A context is changed under its write lock, so  *)
(* none of these touches a context whose write lock a switch() holds.     *)
(***************************************************************************)
Running(k) == ~panic /\ pc[k] = "run" /\ wlock[current[k]] = None

\* The context a CPU boots in is its idle loop: kernel code that only calls
\* switch(); it never blocks, sleeps, runs user code or is sent a signal.
IsUser(c) == (c - 1) \notin online

UserRunning(k) == Running(k) /\ IsUser(current[k])

SetCtx(c, r) ==
    /\ ctx' = [ctx EXCEPT ![c] = r]
    /\ UNCHANGED <<online, current, pc, lock, swtime, slot, wlock, now, ret,
                   woken, panic, sigentry, restored, fileVars, schemeVars, captureVars, moreVars>>

\* Context::block (context.rs:380-388), called by the running context
Block(k) ==
    /\ UserRunning(k)
    /\ ctx[current[k]].status = "Runnable"
    /\ SetCtx(current[k], block(ctx[current[k]]))

\* a sleep: the running context sets its wake time and blocks
Sleep(k, t) ==
    /\ UserRunning(k)
    /\ t >= now
    /\ ctx[current[k]].status = "Runnable"
    /\ SetCtx(current[k], block([ctx[current[k]] EXCEPT !.wake = Some(t)]))

\* Context::unblock (context.rs:391-407), called on any context
Unblock(k, d) ==
    /\ Running(k)
    /\ d \in DOMAIN ctx
    /\ wlock[d] = None
    /\ ctx[d].status = "Blocked"
    /\ SetCtx(d, unblock(ctx[d]))

\* a signal is sent: pending.push_back(sig)
Kill(k, d, sig) ==
    /\ Running(k)
    /\ d \in DOMAIN ctx /\ IsUser(d)
    /\ wlock[d] = None
    /\ Len(ctx[d].pending) < MaxPending
    /\ SetCtx(d, [ctx[d] EXCEPT !.pending = Append(@, sig)])

\* the return from a signal handler: request the restore and block
SigReturn(k) ==
    /\ UserRunning(k)
    /\ ctx[current[k]].ksig # None
    /\ ~ctx[current[k]].ksig_restore
    /\ SetCtx(current[k], block([ctx[current[k]] EXCEPT !.ksig_restore = TRUE]))

\* the running context computes: its registers, FPU state and stack change
Execute(k, a, f, s) ==
    /\ UserRunning(k)
    /\ <<a, f, s>> # <<ctx[current[k]].arch, ctx[current[k]].kfx,
                       ctx[current[k]].kstack.data>>
    /\ SetCtx(current[k], [ctx[current[k]] EXCEPT !.arch = a, !.kfx = f,
                                                  !.kstack.data = s])

\* ptrace::set_process_regs (ptrace.rs:349-358)
SetProcessRegs(k) ==
    /\ UserRunning(k)
    /\ ~ctx[current[k]].regs
    /\ SetCtx(current[k], [ctx[current[k]] EXCEPT !.regs = TRUE])

\* Drop for ProcessRegsGuard (ptrace.rs:360-372)
ClearProcessRegs(k) ==
    /\ UserRunning(k)
    /\ ctx[current[k]].regs
    /\ SetCtx(current[k], [ctx[current[k]] EXCEPT !.regs = FALSE])

\* a tracer sets the singlestep flag of d through ptrace::regs_for_mut
SetSinglestep(k, d, b) ==
    /\ Running(k)
    /\ d \in DOMAIN ctx /\ IsUser(d)
    /\ wlock[d] = None
    /\ regs_for(ctx[d]) # "none"
    /\ is_singlestep(ctx[d]) # b
    /\ SetCtx(d, set_singlestep(ctx[d], b))

\* the proc: scheme stops or resumes a traced context
SetPtraceStop(k, d, b) ==
    /\ Running(k)
    /\ d \in DOMAIN ctx /\ IsUser(d)
    /\ wlock[d] = None
    /\ ctx[d].ptrace_stop # b
    /\ SetCtx(d, [ctx[d] EXCEPT !.ptrace_stop = b])

\* the running context is stopped by a stop signal: status = Stopped
Stop(k) ==
    /\ UserRunning(k)
    /\ ctx[current[k]].status = "Runnable"
    /\ SetCtx(current[k], [ctx[current[k]] EXCEPT !.status = "Stopped"])

\* the running context exits: status = Exited
Exit(k) ==
    /\ UserRunning(k)
    /\ ctx[current[k]].status \in {"Runnable", "Blocked"}
    /\ SetCtx(current[k], [ctx[current[k]] EXCEPT !.status = "Exited"])

\* ContextList::insert_new: a new context enters the table under the next id
Spawn(k) ==
    LET id == Cardinality(DOMAIN ctx) + 1
    IN /\ Running(k)
       /\ id \in Ids
       /\ ctx' = [c \in DOMAIN ctx \cup {id} |->
                    IF c = id THEN NewContext ELSE ctx[c]]
       /\ UNCHANGED <<online, current, pc, lock, swtime, slot, wlock, now, ret,
                      woken, panic, sigentry, restored, fileVars, schemeVars, captureVars, moreVars>>

\* time::monotonic() advances
Tick ==
    /\ ~panic
    /\ now < MaxTime
    /\ now' = now + 1
    /\ UNCHANGED <<online, ctx, current, pc, lock, swtime, slot, wlock, ret,
                   woken, panic, sigentry, restored, fileVars, schemeVars, captureVars, moreVars>>

(***************************************************************************)
(* After boot every online CPU k runs its own context, id k + 1, which it  *)
(* owns; every other context of the table is as Context::new returns it.   *)
(***************************************************************************)
BootContext(k) ==
    [NewContext EXCEPT !.status = "Runnable", !.running = TRUE,
                       !.cpu_id = Some(k)]

SchedInit(on, ids) ==
    /\ online = on
    /\ ctx = [c \in ids |-> IF (c - 1) \in on THEN BootContext(c - 1)
                            ELSE NewContext]
    /\ current = [k \in Cpus |-> k + 1]
    /\ pc = [k \in Cpus |-> IF k \in on THEN "run" ELSE "off"]
    /\ lock = FALSE
    /\ swtime = [k \in Cpus |-> 0]
    /\ slot = [k \in Cpus |-> None]
    /\ wlock = [c \in Ids |-> None]
    /\ now = 0
    /\ ret = [k \in Cpus |-> "none"]
    /\ woken = {}
    /\ panic = FALSE
    /\ sigentry = [c \in Ids |-> None]
    /\ restored = {}

(***************************************************************************)
(* The file table (Context::files, context.rs:239): a vector of optional   *)
(* descriptors.  FileHandle i is slot i, counted from 0; the vector holds   *)
(* it at position i + 1.                                                   *)
(***************************************************************************)
Descriptors == 1 .. NumDescriptors
Handles == 0 .. (CONTEXT_MAX_FILES + 1)

\* Vec::push(None) until the vector is longer than i (context.rs:454-456)
PadTo(fs, i) ==
    IF i < Len(fs) THEN fs
    ELSE fs \o [n \in 1 .. (i + 1 - Len(fs)) |-> None]

\* an insert that replaces the descriptor of an occupied slot
insert_file_Overwrites(fs, i, file) ==
    IF i < CONTEXT_MAX_FILES
    THEN [files |-> [PadTo(fs, i) EXCEPT ![i + 1] = Some(file)], ret |-> Some(i)]
    ELSE [files |-> fs, ret |-> None]

\* Context::insert_file (context.rs:451-466)
insert_file(fs, i, file) ==
    IF i < CONTEXT_MAX_FILES
    THEN LET padded == PadTo(fs, i)
         IN IF padded[i + 1] = None
            THEN [files |-> [padded EXCEPT ![i + 1] = Some(file)], ret |-> Some(i)]
            ELSE [files |-> padded, ret |-> None]
    ELSE [files |-> fs, ret |-> None]

\* a search that skips the slot min itself
FirstEmptySlot_AboveMin(fs, min) ==
    LET empty == {i \in 0 .. (Len(fs) - 1) : fs[i + 1] = None /\ i > min}
    IN IF empty = {} THEN None
       ELSE Some(CHOOSE i \in empty : \A j \in empty : i <= j)

\* context.rs:419-424: the first empty slot at or after min
FirstEmptySlot(fs, min) ==
    LET empty == {i \in 0 .. (Len(fs) - 1) : fs[i + 1] = None /\ i >= min}
    IN IF empty = {} THEN None
       ELSE Some(CHOOSE i \in empty : \A j \in empty : i <= j)

\* Context::add_file_min (context.rs:417-437)
add_file_min(fs, file, min) ==
    LET found == FirstEmptySlot(fs, min)
        len == Len(fs)
    IN IF found # None
       THEN [files |-> [fs EXCEPT ![Unwrap(found) + 1] = Some(file)], ret |-> found]
       ELSE IF len < CONTEXT_MAX_FILES
       THEN (IF len >= min
             THEN [files |-> Append(fs, Some(file)), ret |-> Some(len)]
             ELSE insert_file(fs, min, file))
       ELSE [files |-> fs, ret |-> None]

\* Context::remove_file (context.rs:470-477)
remove_file(fs, i) ==
    IF i < Len(fs)
    THEN [files |-> [fs EXCEPT ![i + 1] = None], ret |-> fs[i + 1]]
    ELSE [files |-> fs, ret |-> None]

AddFileMin(file, min) ==
    LET r == add_file_min(files, file, min)
    IN /\ files' = r.files
       /\ fres' = [op |-> "add_file_min", file |-> file, arg |-> min, ret |-> r.ret]
       /\ UNCHANGED <<schedVars, schemeVars, captureVars, moreVars>>

InsertFile(i, file) ==
    LET r == insert_file(files, i, file)
    IN /\ files' = r.files
       /\ fres' = [op |-> "insert_file", file |-> file, arg |-> i, ret |-> r.ret]
       /\ UNCHANGED <<schedVars, schemeVars, captureVars, moreVars>>

RemoveFile(i) ==
    LET r == remove_file(files, i)
    IN /\ files' = r.files
       /\ fres' = [op |-> "remove_file", file |-> 0, arg |-> i, ret |-> r.ret]
       /\ UNCHANGED <<schedVars, schemeVars, captureVars, moreVars>>

\* Context::new (context.rs:369): an empty file table
FilesIdle ==
    /\ files = << >>
    /\ fres = [op |-> "none", file |-> 0, arg |-> 0, ret |-> None]

(***************************************************************************)
(* The user scheme bridge (UserInner, scheme/user.rs): callers push        *)
(* packets into todo and wait in done for the completion of their id; the  *)
(* server reads packets and writes completions.  Buffers are counted in    *)
(* bytes; a packet takes PacketSize of them.                               *)
(***************************************************************************)
Callers == 1 .. NumCallers
Words == 0 .. WordMax
BufLens == 0 .. (2 * PacketSize)

\* Result<usize>: Ok(n), a kernel error by name, or a decoded errno
Ok(n) == [ok |-> TRUE, val |-> n, err |-> "none"]
Err(e) == [ok |-> FALSE, val |-> 0, err |-> e]
Errno(n) == [ok |-> FALSE, val |-> n, err |-> "errno"]
NoResult == [ok |-> FALSE, val |-> 0, err |-> "pending"]

\* Error::demux: the highest MaxErrno words encode the errors
demux(w) == IF w > WordMax - MaxErrno THEN Errno(WordMax + 1 - w) ELSE Ok(w)

Min(a, b) == IF a <= b THEN a ELSE b

\* WaitMap::send: insert the value under the key
MapSend(map, key, value) ==
    [i \in DOMAIN map \cup {key} |-> IF i = key THEN value ELSE map[i]]

\* WaitMap::receive, once the key is there: remove it
MapRemove(map, key) == [i \in DOMAIN map \ {key} |-> map[i]]

\* user.rs:67-72: next_id, under its mutex
CallNextId(c) ==
    /\ cl[c].pc = "idle"
    /\ next_id <= MaxId
    /\ next_id' = next_id + 1
    /\ cl' = [cl EXCEPT ![c] = [pc |-> "id", id |-> next_id, ret |-> NoResult]]
    /\ UNCHANGED <<todo, done, unmounting, nonblock, srv, answered>>
    /\ UNCHANGED <<schedVars, fileVars, captureVars, moreVars>>

\* user.rs:97-99: call_inner refuses when the scheme is unmounting
\* a check that never sees the scheme unmounting
Refused_Never(flag) == FALSE

\* user.rs:97: if self.unmounting.load(Ordering::SeqCst)
Refused(flag) == flag

CallCheck(c) ==
    /\ cl[c].pc = "id"
    /\ cl' = [cl EXCEPT ![c] =
                IF Refused(unmounting) THEN [@ EXCEPT !.pc = "idle", !.ret = Err("ENODEV")]
                ELSE [@ EXCEPT !.pc = "checked"]]
    /\ UNCHANGED <<next_id, todo, done, unmounting, nonblock, srv, answered>>
    /\ UNCHANGED <<schedVars, fileVars, captureVars, moreVars>>

\* user.rs:103: todo.send(packet)
Enqueue(q, packet) == Append(q, packet)

\* user.rs:101-104: push the packet and trigger EVENT_READ
CallSend(c) ==
    /\ cl[c].pc = "checked"
    /\ todo' = Enqueue(todo, [id |-> cl[c].id, a |-> 1])
    /\ cl' = [cl EXCEPT ![c].pc = "wait"]
    /\ UNCHANGED <<next_id, done, unmounting, nonblock, srv, answered>>
    /\ UNCHANGED <<schedVars, fileVars, captureVars, moreVars>>

\* a receive that takes the completion of any id
Completion_AnyId(map, id) == CHOOSE i \in DOMAIN map : TRUE

\* user.rs:106: done.receive(&id): the completion stored under the caller's id
Completion(map, id) == id

\* user.rs:106: the completion is there: take it and decode its result word
CallReceive(c) ==
    /\ cl[c].pc = "wait"
    /\ cl[c].id \in DOMAIN done
    /\ LET key == Completion(done, cl[c].id) IN
       /\ done' = MapRemove(done, key)
       /\ cl' = [cl EXCEPT ![c] = [@ EXCEPT !.pc = "idle",
                                            !.ret = demux(done[key])]]
    /\ UNCHANGED <<next_id, todo, unmounting, nonblock, srv, answered>>
    /\ UNCHANGED <<schedVars, fileVars, captureVars, moreVars>>

\* user.rs:53-65: unmount: set the flag, wake a blocked scheme handler
Unmount ==
    /\ ~unmounting
    /\ unmounting' = TRUE
    /\ srv' = IF srv.pc = "blocked" THEN [srv EXCEPT !.intr = TRUE] ELSE srv
    /\ UNCHANGED <<next_id, todo, done, nonblock, cl, answered>>
    /\ UNCHANGED <<schedVars, fileVars, captureVars, moreVars>>

\* a signal is sent to the server while it waits in read()
SrvSignal ==
    /\ srv.pc = "blocked"
    /\ ~srv.intr
    /\ srv' = [srv EXCEPT !.intr = TRUE]
    /\ UNCHANGED <<next_id, todo, done, unmounting, nonblock, cl, answered>>
    /\ UNCHANGED <<schedVars, fileVars, captureVars, moreVars>>

\* the ids of a sequence of packets
RECURSIVE IdsOf(_)
IdsOf(q) == IF q = << >> THEN << >> ELSE <<Head(q).id>> \o IdsOf(Tail(q))

\* the packets of a sequence, as a set
PacketsOf(q) == {q[i] : i \in 1 .. Len(q)}

\* a length in packets that counts a partial packet as a whole one
PacketsIn_RoundedUp(len) == (len + PacketSize - 1) \div PacketSize

\* user.rs:204, 236: buf.len() / mem::size_of::<Packet>()
PacketsIn(len) == len \div PacketSize

\* user.rs:212-222: receive_into returned count packets
ReadResult(count, un) ==
    IF count > 0 THEN Ok(count * PacketSize)
    ELSE IF un THEN Ok(0)
    ELSE Err("EAGAIN")

\* the server takes the first count packets of todo
TakePackets(count, buflen, res) ==
    LET taken == SubSeq(todo, 1, count) IN
    /\ todo' = SubSeq(todo, count + 1, Len(todo))
    /\ srv' = [srv EXCEPT !.pc = "idle", !.intr = FALSE, !.cap = 0,
                          !.rd = [buf |-> buflen, res |-> res],
                          !.held = @ \cup PacketsOf(taken),
                          !.got = @ \o IdsOf(taken)]

\* user.rs:201-222: read, up to where it returns or blocks
SrvRead(buflen) ==
    LET cap == PacketsIn(buflen)
        un == unmounting
        blocking == ~(nonblock \/ un)
    IN /\ srv.pc = "idle"
       /\ IF cap > 0 /\ blocking /\ todo = << >>
          THEN /\ srv' = [srv EXCEPT !.pc = "blocked", !.cap = cap,
                                     !.rd = [buf |-> buflen, res |-> NoResult]]
               /\ UNCHANGED todo
          ELSE TakePackets(Min(cap, Len(todo)), buflen,
                           ReadResult(Min(cap, Len(todo)), un))
       /\ UNCHANGED <<next_id, done, unmounting, nonblock, cl, answered>>
       /\ UNCHANGED <<schedVars, fileVars, captureVars, moreVars>>

\* user.rs:212-215: the blocked read is woken by a packet
SrvReadWake ==
    /\ srv.pc = "blocked"
    /\ todo # << >>
    /\ TakePackets(Min(srv.cap, Len(todo)), srv.rd.buf,
                   Ok(Min(srv.cap, Len(todo)) * PacketSize))
    /\ UNCHANGED <<next_id, done, unmounting, nonblock, cl, answered>>
    /\ UNCHANGED <<schedVars, fileVars, captureVars, moreVars>>

\* a read that takes every wake without a packet for a signal
AfterWake_Eintr(un) == Err("EINTR")

\* user.rs:223-231: receive_into returned None: unmounting is read again
AfterWake(un) == IF un THEN Ok(0) ELSE Err("EINTR")

\* user.rs:223-231: the blocked read is woken by a signal
SrvReadInterrupted ==
    /\ srv.pc = "blocked"
    /\ srv.intr
    /\ srv' = [srv EXCEPT !.pc = "idle", !.intr = FALSE, !.cap = 0,
                          !.rd = [buf |-> srv.rd.buf,
                                  res |-> AfterWake(unmounting)]]
    /\ UNCHANGED <<next_id, todo, done, unmounting, nonblock, cl, answered>>
    /\ UNCHANGED <<schedVars, fileVars, captureVars, moreVars>>

\* a write that handles the first packet of its buffer only
ApplyPackets_FirstOnly(map, pkts, len) ==
    IF len = 0 \/ pkts = << >> \/ Head(pkts).id = 0 THEN map
    ELSE MapSend(map, Head(pkts).id, Head(pkts).a)

\* user.rs:238-280: apply the first len packets of the buffer in order
RECURSIVE ApplyPackets(_, _, _)
ApplyPackets(map, pkts, len) ==
    IF len = 0 \/ pkts = << >> THEN map
    ELSE ApplyPackets(IF Head(pkts).id = 0 THEN map
                      ELSE MapSend(map, Head(pkts).id, Head(pkts).a),
                      Tail(pkts), len - 1)

\* the packets with a non-zero id among the first len of the buffer
Completed(pkts, len) ==
    SelectSeq(SubSeq(pkts, 1, Min(len, Len(pkts))), LAMBDA p : p.id # 0)

\* user.rs:234-283: write: the server writes a buffer of packets followed
\* by rem more bytes; it answers packets it has read, or sends events (id 0)
SrvWrite(pkts, rem) ==
    LET buflen == Len(pkts) * PacketSize + rem
        len == PacketsIn(buflen)
        sent == Completed(pkts, len)
    IN /\ \A i \in 1 .. Len(pkts) :
              pkts[i].id # 0 => \E p \in srv.held : p.id = pkts[i].id
       /\ done' = ApplyPackets(done, pkts, len)
       /\ answered' = ApplyPackets(answered, pkts, len)
       /\ srv' = [srv EXCEPT
                    !.wr = [buf |-> buflen, res |-> Ok(len * PacketSize)],
                    !.held = {p \in @ : \A i \in 1 .. Len(sent) :
                                           sent[i].id # p.id}]
       /\ UNCHANGED <<next_id, todo, unmounting, nonblock, cl>>
       /\ UNCHANGED <<schedVars, fileVars, captureVars, moreVars>>

\* the buffers a server writes: no packet or one, an event or a completion
WriteBuffers ==
    {<< >>} \cup {<<[id |-> i, a |-> a]>> : i \in 0 .. MaxId, a \in Words}

\* UserInner::new (user.rs:37-51), with the handle's O_NONBLOCK flag nb
SchemeInit(nb) ==
    /\ next_id = 1
    /\ todo = << >>
    /\ done = << >>
    /\ unmounting = FALSE
    /\ nonblock = nb
    /\ cl = [c \in Callers |-> [pc |-> "idle", id |-> 0, ret |-> NoResult]]
    /\ srv = [pc |-> "idle", cap |-> 0, intr |-> FALSE,
              rd |-> [buf |-> 0, res |-> NoResult],
              wr |-> [buf |-> 0, res |-> NoResult],
              held |-> {}, got |-> << >>]
    /\ answered = << >>

(***************************************************************************)
(* Memory capture (UserInner::capture_inner and release, scheme/user.rs):  *)
(* a buffer of a caller is borrowed into the server's address space as a   *)
(* grant.  Addresses are AddrBits wide; a grant is a run of count pages    *)
(* from page start, and addr is the address the capture that made it       *)
(* returned.                                                               *)
(***************************************************************************)
AddrSpaceSize == 2 ^ AddrBits
Addrs == 0 .. (AddrSpaceSize - 1)

\* context::memory::DANGLING: the most significant bit set
DANGLING == 2 ^ (AddrBits - 1)

\* the pages of the user half of the address space, where mmap finds room
UserPages == 0 .. ((DANGLING \div PAGE_SIZE) - 1)

\* paging::round_down_pages and paging::round_up_pages
round_down_pages(n) == n - (n % PAGE_SIZE)
round_up_pages(n) == round_down_pages(n + PAGE_SIZE - 1)

\* usize addition as the build without overflow checks computes it
WrappingAdd(a, b) == (a + b) % AddrSpaceSize

\* whether a usize addition overflows
Overflows(a, b) == a + b >= AddrSpaceSize

\* the pages of a grant
PagesOf(g) == g.start .. (g.start + g.count - 1)

\* Grants::contains: the grant whose region holds the address
GrantAt(gs, address) ==
    {g \in gs : /\ g.start * PAGE_SIZE <= address
                /\ address < (g.start + g.count) * PAGE_SIZE}

\* AddrSpace::mmap with no requested page: the pages at which a run of
\* count pages is free in the user half
FreeRuns(gs, count) ==
    {p \in UserPages :
        /\ \A q \in p .. (p + count - 1) : q \in UserPages
        /\ \A g \in gs : PagesOf(g) \cap (p .. (p + count - 1)) = {}}

\* user.rs:155: round_up_pages(offset + size) / PAGE_SIZE
PageCount(offset, size) ==
    round_down_pages(WrappingAdd(WrappingAdd(offset, size), PAGE_SIZE - 1))
        \div PAGE_SIZE

\* user.rs:155: whether the arithmetic of the page count overflows
PageCountOverflows(offset, size) ==
    \/ Overflows(offset, size)
    \/ Overflows(WrappingAdd(offset, size), PAGE_SIZE - 1)

CaptureResult(a, n, res, locked, made) ==
    [op |-> "capture", a |-> a, n |-> n, ret |-> res, locked |-> locked,
     made |-> made, gone |-> None]

\* a capture that maps a page for an empty buffer
ZeroLength_Maps(size) == FALSE

\* user.rs:140: if size == 0
ZeroLength(size) == size = 0

\* UserInner::capture / capture_inner (user.rs:111-182) of the buffer of
\* size bytes at address, with no requested destination page.  An
\* overflowing sum panics in a build with overflow checks (checked) and
\* wraps in a build without them.
Capture(address, size, checked) ==
    LET src_page == round_down_pages(address) \div PAGE_SIZE
        offset == address - src_page * PAGE_SIZE
        page_count == PageCount(offset, size)
    IN /\ checked => PageCountOverflows(offset, size)
       /\ IF ZeroLength(size)
          THEN /\ cres' = CaptureResult(address, size, Ok(DANGLING), FALSE, None)
               /\ UNCHANGED grants
          ELSE IF checked /\ PageCountOverflows(offset, size)
          THEN /\ cres' = CaptureResult(address, size, Err("panic"), FALSE, None)
               /\ UNCHANGED grants
          ELSE IF ~server
          THEN /\ cres' = CaptureResult(address, size, Err("ESRCH"), FALSE, None)
               /\ UNCHANGED grants
          ELSE IF page_count = 0
          THEN /\ cres' = CaptureResult(address, size, Err("EINVAL"), TRUE, None)
               /\ UNCHANGED grants
          ELSE IF FreeRuns(grants, page_count) = {}
          THEN /\ cres' = CaptureResult(address, size, Err("ENOMEM"), TRUE, None)
               /\ UNCHANGED grants
          ELSE \E dst_page \in FreeRuns(grants, page_count) :
                  LET g == [start |-> dst_page, count |-> page_count,
                            addr |-> dst_page * PAGE_SIZE + offset]
                  IN /\ grants' = grants \cup {g}
                     /\ cres' = CaptureResult(address, size, Ok(g.addr), TRUE,
                                              Some([dst |-> dst_page, count |-> page_count,
                                                    src |-> src_page]))
       /\ UNCHANGED server
       /\ UNCHANGED <<schedVars, fileVars, schemeVars, moreVars>>

ReleaseResult(a, res, locked, gone) ==
    [op |-> "release", a |-> a, n |-> 0, ret |-> res, locked |-> locked,
     made |-> None, gone |-> gone]

\* user.rs:185: if address == DANGLING
IsDangling(address) == address = DANGLING

\* a lookup that finds the lowest grant whatever the address is
Lookup_Lowest(gs, address) ==
    {g \in gs : \A h \in gs : g.start <= h.start}

\* user.rs:193: addr_space.grants.contains(address)
Lookup(gs, address) == GrantAt(gs, address)

\* UserInner::release (user.rs:184-199)
Release(address) ==
    /\ IF IsDangling(address)
       THEN /\ cres' = ReleaseResult(address, Ok(0), FALSE, None)
            /\ UNCHANGED grants
       ELSE IF ~server
       THEN /\ cres' = ReleaseResult(address, Err("ESRCH"), FALSE, None)
            /\ UNCHANGED grants
       ELSE IF Lookup(grants, address) = {}
       THEN /\ cres' = ReleaseResult(address, Err("EFAULT"), TRUE, None)
            /\ UNCHANGED grants
       ELSE LET region == Unwrap(Lookup(grants, address))
            IN /\ grants' = grants \ {region}
               /\ cres' = ReleaseResult(address, Ok(0), TRUE, Some(region))
    /\ UNCHANGED server
    /\ UNCHANGED <<schedVars, fileVars, schemeVars, moreVars>>

\* the server's context exits: its address space is released
ServerExit ==
    /\ server
    /\ server' = FALSE
    /\ grants' = {}
    /\ UNCHANGED cres
    /\ UNCHANGED <<schedVars, fileVars, schemeVars, moreVars>>

\* a server with an address space that holds no grant
CaptureInit ==
    /\ grants = {}
    /\ server = TRUE
    /\ cres = [op |-> "none", a |-> 0, n |-> 0, ret |-> NoResult,
               locked |-> FALSE, made |-> None, gone |-> None]

(***************************************************************************)
(* The address-space locks of capture_inner (scheme/user.rs:158-179).      *)
(* Each capturing context runs on its own CPU; its own address space is    *)
(* AddrSpace::current(), the destination is the address space of the       *)
(* context the capture maps into.  A write lock is a spin lock: it is      *)
(* taken when no one holds it.                                             *)
(***************************************************************************)
NumCapturers == 2
NumSpaces == 2
Capturers == 1 .. NumCapturers
Spaces == 1 .. NumSpaces

\* user.rs:163-179: Arc::ptr_eq(dst, cur): one write lock; otherwise
\* dst_space_lock.write() before mmap, cur_space_lock.write() in its closure
LockOrder(dst, cur) ==
    IF dst = cur THEN <<dst>> ELSE <<dst, cur>>

\* the locks the capture of p takes, in order
LocksOf(p) == LockOrder(capt[p].dst, space[p])

\* the lock the capture of p takes next, or 0
NextLock(p) ==
    IF capt[p].pc = "locking" /\ Len(capt[p].held) < Len(LocksOf(p))
    THEN LocksOf(p)[Len(capt[p].held) + 1]
    ELSE 0

\* user.rs:158-159: the destination context is upgraded and its address
\* space and the current one are looked up
CapStart(p, d) ==
    /\ capt[p].pc = "idle"
    /\ capt' = [capt EXCEPT ![p] = [pc |-> "locking", dst |-> d, held |-> << >>,
                                  took |-> << >>, ret |-> NoResult]]
    /\ UNCHANGED <<space, aslock>>
    /\ UNCHANGED <<schedVars, fileVars, schemeVars, captureVars, funmapVars, ptraceVars,
                 shareVars, fmapVars>>

\* user.rs:167, 174, 176: a write lock is taken, once it is free
CapLock(p) ==
    /\ NextLock(p) # 0
    /\ aslock[NextLock(p)] = 0
    /\ aslock' = [aslock EXCEPT ![NextLock(p)] = p]
    /\ capt' = [capt EXCEPT ![p].held = Append(@, NextLock(p)),
                          ![p].took = Append(@, NextLock(p))]
    /\ UNCHANGED space
    /\ UNCHANGED <<schedVars, fileVars, schemeVars, captureVars, funmapVars, ptraceVars,
                 shareVars, fmapVars>>

\* user.rs:168, 175: mmap finds no room, before it calls its closure: the
\* destination lock is dropped and the error returned
CapNoRoom(p) ==
    /\ capt[p].pc = "locking"
    /\ Len(capt[p].held) = 1
    /\ capt[p].held[1] = capt[p].dst
    /\ aslock' = [aslock EXCEPT ![capt[p].dst] = 0]
    /\ capt' = [capt EXCEPT ![p].pc = "idle", ![p].held = << >>,
                          ![p].ret = Err("ENOMEM")]
    /\ UNCHANGED space
    /\ UNCHANGED <<schedVars, fileVars, schemeVars, captureVars, funmapVars, ptraceVars,
                 shareVars, fmapVars>>

\* user.rs:168-181: Grant::borrow ran with every lock held; the guards are
\* dropped and the address returned
CapFinish(p) ==
    /\ capt[p].pc = "locking"
    /\ Len(capt[p].held) = Len(LocksOf(p))
    /\ aslock' = [a \in Spaces |-> IF aslock[a] = p THEN 0 ELSE aslock[a]]
    /\ capt' = [capt EXCEPT ![p].pc = "idle", ![p].held = << >>,
                          ![p].ret = Ok(0)]
    /\ UNCHANGED space
    /\ UNCHANGED <<schedVars, fileVars, schemeVars, captureVars, funmapVars, ptraceVars,
                 shareVars, fmapVars>>

\* no capture in progress, no lock held; sp gives each context its space
LocksInit(sp) ==
    /\ space = sp
    /\ aslock = [a \in Spaces |-> 0]
    /\ capt = [p \in Capturers |-> [pc |-> "idle", dst |-> 1, held |-> << >>,
                                   took |-> << >>, ret |-> NoResult]]

LocksIdle == LocksInit([p \in Capturers |-> 1])

(***************************************************************************)
(* The funmap table (scheme/user.rs): UserInner::write records, for each   *)
(* completed fmap, the region of the caller it mapped and the address of   *)
(* the server it stands for; UserScheme::funmap looks a region up, splits  *)
(* it and tells the server.  A region is [start, start + size), base is    *)
(* the server address of its first byte.  The scheme is mounted on a live  *)
(* UserInner, and the sums stay within a machine word.                     *)
(***************************************************************************)
MaxMapSize == 4
MaxServerAddr == 1
\* an fmap of a page, or of a byte less
MapSizes == (MaxMapSize - 1) .. MaxMapSize
ServerAddrs == 0 .. MaxServerAddr
\* the caller's grants lie in the user half of its address space
CallerPages == UserPages
FunmapAddrs == 0 .. DANGLING
FunmapSizes == 1 .. MaxMapSize

\* Region::end_address
EndOf(r) == r.start + r.size

\* BTreeMap::insert under Region's order, which compares the start only:
\* an entry with an equal key keeps its key and takes the new value
TableInsert(table, r) ==
    IF \E e \in table : e.start = r.start
    THEN {IF e.start = r.start THEN [e EXCEPT !.base = r.base] ELSE e :
             e \in table}
    ELSE table \cup {r}

\* user.rs:451: funmap.range(..=Region::byte(grant_address)).next_back()
FindEntry(table, address) ==
    {e \in table : /\ e.start <= address
                   /\ \A f \in table : f.start <= address => f.start <= e.start}

\* a bounds check that lets every request through
PastEnd_Never(address, size, grant) == FALSE

\* user.rs:457: grant_requested.end_address() > grant.end_address()
PastEnd(address, size, grant) == address + size > EndOf(grant)

\* Region::before: the part of the grant below the request, if not empty
Before(grant, address) ==
    IF address > grant.start
    THEN {[start |-> grant.start, size |-> address - grant.start,
           base |-> grant.base]}
    ELSE {}

\* Region::after, rebased (user.rs:468-471): the part of the grant above
\* the request, if not empty
After(grant, address, size) ==
    IF EndOf(grant) > address + size
    THEN {[start |-> address + size,
           size |-> EndOf(grant) - (address + size),
           base |-> grant.base + (address + size - grant.start)]}
    ELSE {}

RECURSIVE InsertAll(_, _)
InsertAll(table, rs) ==
    IF rs = {} THEN table
    ELSE LET r == CHOOSE x \in rs : \A y \in rs : x.start <= y.start
         IN InsertAll(TableInsert(table, r), rs \ {r})

\* Region::rebase (user.rs:473): the server address of a caller address
Rebase(grant, address) == grant.base + (address - grant.start)

\* user.rs:261: (map.size + PAGE_SIZE - 1) / PAGE_SIZE
MapPages(size) == (size + PAGE_SIZE - 1) \div PAGE_SIZE

\* the runs of count free pages of the caller's address space
CallerFreeRuns(count) ==
    {p \in CallerPages :
        \A q \in p .. (p + count - 1) :
            /\ q \in CallerPages
            /\ \A m \in mapped : q \notin m.page .. (m.page + m.count - 1)}

\* UserInner::write, the fmap completion (user.rs:249-266): the server
\* answered a pending fmap of size bytes with its address S; the range is
\* captured into the caller, anywhere, and recorded in the funmap table
FmapComplete(S, size) ==
    LET offset == S % PAGE_SIZE
        page_count == PageCount(offset, size)
    IN /\ \E dst_page \in CallerFreeRuns(page_count) :
              LET grant_address == dst_page * PAGE_SIZE + offset
                  r == [start |-> grant_address,
                        size |-> MapPages(size) * PAGE_SIZE, base |-> S]
              IN /\ funmap' = TableInsert(funmap, r)
                 /\ mapped' = mapped \cup
                        {[u |-> grant_address, s |-> S, size |-> size,
                          page |-> dst_page, count |-> page_count]}
                 /\ fmres' = [op |-> "fmap", addr |-> grant_address,
                              size |-> size, ret |-> Ok(grant_address),
                              sent |-> {}]
       /\ UNCHANGED <<schedVars, fileVars, schemeVars, captureVars, lockVars, ptraceVars,
                 shareVars, fmapVars>>

FunmapResult(address, size, res, sent) ==
    [op |-> "funmap", addr |-> address, size |-> size, ret |-> res,
     sent |-> sent]

\* UserScheme::funmap (user.rs:443-484), with the call it makes
Funmap(grant_address, size) ==
    LET entry == FindEntry(funmap, grant_address) IN
    /\ IF entry = {}
       THEN /\ fmres' = FunmapResult(grant_address, size, Err("EINVAL"), {})
            /\ UNCHANGED <<funmap, mapped>>
       ELSE LET grant == Unwrap(entry) IN
            IF PastEnd(grant_address, size, grant)
            THEN /\ fmres' = FunmapResult(grant_address, size, Err("EINVAL"), {})
                 /\ UNCHANGED <<funmap, mapped>>
            ELSE /\ UNCHANGED mapped
                 /\ funmap' = InsertAll(funmap \ {grant},
                                        Before(grant, grant_address)
                                        \cup After(grant, grant_address, size))
                 /\ fmres' =
                        IF unmounting
                        THEN FunmapResult(grant_address, size, Err("ENODEV"), {})
                        ELSE FunmapResult(grant_address, size, Ok(0),
                                          {[a |-> "SYS_FUNMAP",
                                            b |-> Rebase(grant, grant_address),
                                            c |-> size]})
    /\ UNCHANGED <<schedVars, fileVars, schemeVars, captureVars, lockVars, ptraceVars,
                 shareVars, fmapVars>>

\* a caller with no fmap completed
FunmapInit ==
    /\ funmap = {}
    /\ mapped = {}
    /\ fmres = [op |-> "none", addr |-> 0, size |-> 0, ret |-> NoResult,
                sent |-> {}]

(***************************************************************************)
(* Ptrace sessions (ptrace.rs): one traced context id, its tracer thread   *)
(* in wait(pid), the tracee in breakpoint_callback, and the calls that     *)
(* open and close the session.  A Session object lives while someone holds *)
(* its Arc, also after close_session took it out of the map.  PtraceFlags  *)
(* are sets of bits.  WaitCondition::wait(guard) puts the caller in the    *)
(* list and drops the guard in one step; notify() empties the list; wait   *)
(* returns true when a notify took the caller out of the list and false    *)
(* when the caller woke up for another reason (a signal) and is still in   *)
(* it.                                                                     *)
(***************************************************************************)
MaxSessions == 2
NumFlagBits == 1
MaxEvents == 2
NumFileIds == 2
SessionIds == 1 .. MaxSessions
PtraceFlags == SUBSET (1 .. NumFlagBits)
FileIds == 1 .. NumFileIds

\* a check that lets every breakpoint callback stop
Contains_Always(flags, match_flags) == TRUE

\* ptrace.rs:293: breakpoint.flags & match_flags != match_flags, negated
Contains(flags, match_flags) == match_flags \subseteq flags

\* SessionData::is_reached (ptrace.rs:72-74)
is_reached(data) == \E b \in data.breakpoint : b.reached

\* a wait that sleeps whenever the breakpoint is not reached
MayReturn_ReachedOnly(data) == is_reached(data)

\* ptrace.rs:255: the breakpoint is reached or there is an unread event
MayReturn(data) == is_reached(data) \/ data.events # << >>

\* SessionData of a new session (ptrace.rs:141-145)
NewData(file_id) ==
    [breakpoint |-> None, events |-> << >>, file_id |-> file_id]

\* the Session objects someone holds an Arc of: the map m, the tracer a
\* and the tracee b inside their loops (ptrace.rs:245, 286)
Holders(m, a, b) ==
    (IF m # 0 THEN {m} ELSE {})
        \cup (IF a.pc \in {"got", "asleep"} THEN {a.s} ELSE {})
        \cup (IF b.pc \in {"got", "asleep"} THEN {b.s} ELSE {})

\* a Session nobody holds is dropped, and its data with it
Dropped(data, m, a, b) ==
    [s \in SessionIds |->
        IF s \in Holders(m, a, b) THEN data[s] ELSE NewData(1)]

\* what the last try_new_session returned
SessionOpResult(ok) == [called |-> TRUE, ok |-> ok]

\* an entry test that never finds a session
Occupied_Never(s) == FALSE

\* ptrace.rs:139: Entry::Occupied
Occupied(s) == s # 0

\* try_new_session (ptrace.rs:135-153): an occupied entry is left alone
try_new_session(file_id) ==
    /\ IF Occupied(sess)
       THEN /\ pres' = SessionOpResult(FALSE)
            /\ UNCHANGED <<sess, nsess, sdata>>
       ELSE /\ nsess < MaxSessions
            /\ nsess' = nsess + 1
            /\ sess' = nsess + 1
            /\ sdata' = [sdata EXCEPT ![nsess + 1] = NewData(file_id)]
            /\ pres' = SessionOpResult(TRUE)
    /\ UNCHANGED <<waiting, tr, te>>
    /\ UNCHANGED <<schedVars, fileVars, schemeVars, captureVars, lockVars, funmapVars,
                 shareVars, fmapVars>>

\* WaitCondition::notify on both conditions of the session s
NotifyBoth(s) == [waiting EXCEPT ![s] = [tracer |-> FALSE, tracee |-> FALSE]]

\* WaitCondition::notify on the tracer condition of the session s
NotifyTracer(s) == [waiting EXCEPT ![s].tracer = FALSE]

\* the session in the map is closed while the tracer is in wait(pid) on it
ClosedInWait ==
    \/ tr.pc # "idle" /\ tr.closed
    \/ tr.pc \in {"got", "asleep"} /\ tr.s = sess

\* close_session (ptrace.rs:157-162): remove the session, notify both sides
close_session ==
    /\ IF sess # 0
       THEN /\ sess' = 0
            /\ waiting' = NotifyBoth(sess)
            /\ tr' = [tr EXCEPT !.closed = ClosedInWait]
            /\ te' = [te EXCEPT !.closed = te.pc = "asleep" /\ te.s = sess
                                           /\ waiting[sess].tracee]
       ELSE UNCHANGED <<sess, waiting, tr, te>>
    /\ sdata' = Dropped(sdata, sess', tr', te')
    /\ UNCHANGED <<nsess, pres>>
    /\ UNCHANGED <<schedVars, fileVars, schemeVars, captureVars, lockVars, funmapVars,
                 shareVars, fmapVars>>

\* close_tracee (ptrace.rs:170-177): notify the tracer, keep the session
close_tracee ==
    /\ IF sess # 0
       THEN /\ waiting' = NotifyTracer(sess)
            /\ tr' = [tr EXCEPT !.closed = ClosedInWait]
       ELSE UNCHANGED <<waiting, tr>>
    /\ UNCHANGED <<sess, nsess, sdata, te, pres>>
    /\ UNCHANGED <<schedVars, fileVars, schemeVars, captureVars, lockVars, funmapVars,
                 shareVars, fmapVars>>

\* SessionData::set_breakpoint (ptrace.rs:63-68), by the tracer between
\* its waits
set_breakpoint(flags) ==
    /\ tr.pc = "idle"
    /\ sess # 0
    /\ sdata' = [sdata EXCEPT ![sess].breakpoint =
                    {[reached |-> FALSE, flags |-> f] : f \in flags}]
    /\ UNCHANGED <<sess, nsess, waiting, tr, te, pres>>
    /\ UNCHANGED <<schedVars, fileVars, schemeVars, captureVars, lockVars, funmapVars,
                 shareVars, fmapVars>>

\* SessionData::recv_events (ptrace.rs:88-94) with room for every event,
\* by the tracer between its waits
recv_events ==
    /\ tr.pc = "idle"
    /\ sess # 0
    /\ sdata[sess].events # << >>
    /\ sdata' = [sdata EXCEPT ![sess].events = << >>]
    /\ UNCHANGED <<sess, nsess, waiting, tr, te, pres>>
    /\ UNCHANGED <<schedVars, fileVars, schemeVars, captureVars, lockVars, funmapVars,
                 shareVars, fmapVars>>

\* the tracer lets the tracee go on: session.tracee.notify()
Resume ==
    /\ tr.pc = "idle"
    /\ sess # 0
    /\ waiting[sess].tracee
    /\ waiting' = [waiting EXCEPT ![sess].tracee = FALSE]
    /\ UNCHANGED <<sess, nsess, sdata, tr, te, pres>>
    /\ UNCHANGED <<schedVars, fileVars, schemeVars, captureVars, lockVars, funmapVars,
                 shareVars, fmapVars>>

TracerReturns(why) ==
    [tr EXCEPT !.pc = "idle", !.s = 1, !.why = why]

\* the tracer calls wait(pid)
WaitCall ==
    /\ tr.pc = "idle"
    /\ tr' = [tr EXCEPT !.pc = "start", !.why = "none", !.closed = FALSE]
    /\ UNCHANGED <<sess, nsess, sdata, waiting, te, pres>>
    /\ UNCHANGED <<schedVars, fileVars, schemeVars, captureVars, lockVars, funmapVars,
                 shareVars, fmapVars>>

\* ptrace.rs:241-248: look the session up, return when there is none
WaitGet ==
    /\ tr.pc = "start"
    /\ tr' = IF sess = 0 THEN TracerReturns("gone")
             ELSE [tr EXCEPT !.pc = "got", !.s = sess]
    /\ UNCHANGED <<sess, nsess, sdata, waiting, te, pres>>
    /\ UNCHANGED <<schedVars, fileVars, schemeVars, captureVars, lockVars, funmapVars,
                 shareVars, fmapVars>>

\* ptrace.rs:252-261: under the data lock: return, or sleep on tracer
WaitCheck ==
    /\ tr.pc = "got"
    /\ IF MayReturn(sdata[tr.s])
       THEN /\ tr' = TracerReturns("ready")
            /\ UNCHANGED waiting
       ELSE /\ tr' = [tr EXCEPT !.pc = "asleep"]
            /\ waiting' = [waiting EXCEPT ![tr.s].tracer = TRUE]
    /\ sdata' = Dropped(sdata, sess, tr', te)
    /\ UNCHANGED <<sess, nsess, te, pres>>
    /\ UNCHANGED <<schedVars, fileVars, schemeVars, captureVars, lockVars, funmapVars,
                 shareVars, fmapVars>>

\* ptrace.rs:261-264: tracer.wait returned true: a notify woke the tracer
WaitNotified ==
    /\ tr.pc = "asleep"
    /\ ~waiting[tr.s].tracer
    /\ tr' = TracerReturns("notified")
    /\ sdata' = Dropped(sdata, sess, tr', te)
    /\ UNCHANGED <<sess, nsess, waiting, te, pres>>
    /\ UNCHANGED <<schedVars, fileVars, schemeVars, captureVars, lockVars, funmapVars,
                 shareVars, fmapVars>>

\* ptrace.rs:261, 240: tracer.wait returned false (the tracer was woken by
\* a signal): it leaves the list and goes round the loop
WaitInterrupted ==
    /\ tr.pc = "asleep"
    /\ waiting[tr.s].tracer
    /\ waiting' = [waiting EXCEPT ![tr.s].tracer = FALSE]
    /\ tr' = [tr EXCEPT !.pc = "start", !.s = 1]
    /\ sdata' = Dropped(sdata, sess, tr', te)
    /\ UNCHANGED <<sess, nsess, te, pres>>
    /\ UNCHANGED <<schedVars, fileVars, schemeVars, captureVars, lockVars, funmapVars,
                 shareVars, fmapVars>>

\* the callback has not returned
InCallback == [done |-> FALSE, val |-> None]

TraceeReturns(r) ==
    [te EXCEPT !.pc = "idle", !.s = 1, !.m = {}, !.bp = {},
               !.ret = [done |-> TRUE, val |-> r]]

\* the tracee calls breakpoint_callback(match_flags, None)
CallbackCall(match_flags) ==
    /\ te.pc = "idle"
    /\ te' = [te EXCEPT !.pc = "start", !.m = match_flags, !.ret = InCallback,
                        !.stopped = FALSE, !.closed = FALSE]
    /\ UNCHANGED <<sess, nsess, sdata, waiting, tr, pres>>
    /\ UNCHANGED <<schedVars, fileVars, schemeVars, captureVars, lockVars, funmapVars,
                 shareVars, fmapVars>>

\* ptrace.rs:278-287: look the session of the current context up
CallbackGet ==
    /\ te.pc = "start"
    /\ te' = IF sess = 0 THEN TraceeReturns(None)
             ELSE [te EXCEPT !.pc = "got", !.s = sess]
    /\ UNCHANGED <<sess, nsess, sdata, waiting, tr, pres>>
    /\ UNCHANGED <<schedVars, fileVars, schemeVars, captureVars, lockVars, funmapVars,
                 shareVars, fmapVars>>

\* ptrace.rs:289-308: under the data lock: return None, or set reached,
\* queue the event, notify the tracer and sleep on tracee
CallbackCheck ==
    /\ te.pc = "got"
    /\ LET data == sdata[te.s] IN
       IF data.breakpoint = None
       THEN /\ te' = TraceeReturns(None)
            /\ sdata' = Dropped(sdata, sess, tr, te')
            /\ UNCHANGED waiting
       ELSE LET breakpoint == Unwrap(data.breakpoint) IN
            IF ~Contains(breakpoint.flags, te.m)
            THEN /\ te' = TraceeReturns(None)
                 /\ sdata' = Dropped(sdata, sess, tr, te')
                 /\ UNCHANGED waiting
            ELSE /\ Len(data.events) < MaxEvents
                 /\ sdata' = [sdata EXCEPT ![te.s] =
                                 [@ EXCEPT !.breakpoint =
                                        {[breakpoint EXCEPT !.reached = TRUE]},
                                    !.events = Append(@, te.m)]]
                 /\ waiting' = [waiting EXCEPT ![te.s] =
                                   [tracer |-> FALSE, tracee |-> TRUE]]
                 /\ te' = [te EXCEPT !.pc = "asleep", !.bp = breakpoint.flags,
                                     !.stopped = TRUE]
    /\ UNCHANGED <<sess, nsess, tr, pres>>
    /\ UNCHANGED <<schedVars, fileVars, schemeVars, captureVars, lockVars, funmapVars,
                 shareVars, fmapVars>>

\* ptrace.rs:308-311: tracee.wait returned true: break Some(breakpoint.flags)
CallbackNotified ==
    /\ te.pc = "asleep"
    /\ ~waiting[te.s].tracee
    /\ te' = TraceeReturns(Some(te.bp))
    /\ sdata' = Dropped(sdata, sess, tr, te')
    /\ UNCHANGED <<sess, nsess, waiting, tr, pres>>
    /\ UNCHANGED <<schedVars, fileVars, schemeVars, captureVars, lockVars, funmapVars,
                 shareVars, fmapVars>>

\* ptrace.rs:308, 277: tracee.wait returned false (the tracee was woken by
\* a signal): it leaves the list and goes round the loop
CallbackInterrupted ==
    /\ te.pc = "asleep"
    /\ waiting[te.s].tracee
    /\ waiting' = [waiting EXCEPT ![te.s].tracee = FALSE]
    /\ te' = [te EXCEPT !.pc = "start", !.s = 1]
    /\ sdata' = Dropped(sdata, sess, tr, te')
    /\ UNCHANGED <<sess, nsess, tr, pres>>
    /\ UNCHANGED <<schedVars, fileVars, schemeVars, captureVars, lockVars, funmapVars,
                 shareVars, fmapVars>>

\* no session, nobody in wait or in a callback
PtraceInit ==
    /\ sess = 0
    /\ nsess = 0
    /\ sdata = [s \in SessionIds |-> NewData(1)]
    /\ waiting = [s \in SessionIds |-> [tracer |-> FALSE, tracee |-> FALSE]]
    /\ tr = [pc |-> "idle", s |-> 1, why |-> "none", closed |-> FALSE]
    /\ te = [pc |-> "idle", s |-> 1, m |-> {}, bp |-> {}, ret |-> InCallback,
             stopped |-> FALSE, closed |-> FALSE]
    /\ pres = [called |-> FALSE, ok |-> FALSE]

(***************************************************************************)
(* A file table shared between contexts (Context::files is an              *)
(* Arc<RwLock<Vec<..>>>, context.rs:239): one context calls add_file_min   *)
(* while others insert and remove.  Each step is what runs under one       *)
(* files.write() guard.                                                    *)
(***************************************************************************)
\* the indices at or after min that a file could be stored at
FreeAt(fs, min) ==
    {i \in min .. (CONTEXT_MAX_FILES - 1) :
        i >= Len(fs) \/ fs[i + 1] = None}

\* add_file_min returns r
AddReturns(r, nofree) ==
    [sh EXCEPT !.pc = "idle", !.ret = r, !.called = TRUE, !.by = "add",
               !.nofree = nofree]

\* context.rs:418-436: add_file_min under its write guard: the scan, the
\* push, or drop(files) before the call of insert_file
AddFileMinScan(file, min) ==
    LET found == FirstEmptySlot(files, min)
        len == Len(files)
        nofree == FreeAt(files, min) = {}
    IN /\ sh.pc = "idle"
       /\ IF found # None
          THEN /\ files' = [files EXCEPT ![Unwrap(found) + 1] = Some(file)]
               /\ sh' = [AddReturns(found, nofree) EXCEPT
                            !.file = file, !.min = min]
          ELSE IF len < CONTEXT_MAX_FILES
          THEN IF len >= min
               THEN /\ files' = Append(files, Some(file))
                    /\ sh' = [AddReturns(Some(len), nofree) EXCEPT
                                 !.file = file, !.min = min]
               ELSE /\ files' = files
                    /\ sh' = [sh EXCEPT !.pc = "dropped", !.file = file,
                                        !.min = min, !.ret = None,
                                        !.called = FALSE, !.by = "add",
                                        !.nofree = nofree]
          ELSE /\ files' = files
               /\ sh' = [AddReturns(None, nofree) EXCEPT
                            !.file = file, !.min = min]
       /\ UNCHANGED fres
       /\ UNCHANGED <<schedVars, schemeVars, captureVars, lockVars, funmapVars,
                      ptraceVars, fmapVars>>

\* context.rs:432: self.insert_file(FileHandle::from(min), file), under a
\* write guard of its own
AddFileMinInsert ==
    LET r == insert_file(files, sh.min, sh.file)
    IN /\ sh.pc = "dropped"
       /\ files' = r.files
       /\ sh' = AddReturns(r.ret, sh.nofree \/ FreeAt(files, sh.min) = {})
       /\ UNCHANGED fres
       /\ UNCHANGED <<schedVars, schemeVars, captureVars, lockVars, funmapVars,
                      ptraceVars, fmapVars>>

\* another context changed the table to fs
OtherDid(fs) ==
    /\ files' = fs
    /\ sh' = [sh EXCEPT !.by = "other",
                        !.nofree = IF sh.pc = "dropped"
                                   THEN @ \/ FreeAt(fs, sh.min) = {}
                                   ELSE @]
    /\ UNCHANGED fres
    /\ UNCHANGED <<schedVars, schemeVars, captureVars, lockVars, funmapVars,
                   ptraceVars, fmapVars>>

\* another context calls insert_file, or add_file_min stores at i
OtherInsert(i, file) == OtherDid(insert_file(files, i, file).files)

\* another context calls remove_file
OtherRemove(i) == OtherDid(remove_file(files, i).files)

\* no add_file_min in progress
ShareInit ==
    sh = [pc |-> "idle", file |-> 1, min |-> 0, ret |-> None,
          called |-> FALSE, by |-> "none", nofree |-> FALSE]

\* no fmap pending, nothing written
FmapInit ==
    /\ fmaptab = {}
    /\ wres = [pkts |-> << >>, stored |-> << >>]

(***************************************************************************)
(* The pending-fmap table (UserInner::fmap, scheme/user.rs): fmap_inner    *)
(* enters the id of its request before it calls, write takes the entry of  *)
(* the id it completes.  An entry is modelled by its id.  The server may   *)
(* write any packets, not only answers to what it has read.                *)
(***************************************************************************)
\* user.rs:319: fmap_inner: let id = self.next_id()
FmapNextId(c) ==
    /\ cl[c].pc = "idle"
    /\ next_id <= MaxId
    /\ next_id' = next_id + 1
    /\ cl' = [cl EXCEPT ![c] = [pc |-> "fmap", id |-> next_id, ret |-> NoResult]]
    /\ UNCHANGED <<todo, done, unmounting, nonblock, srv, answered>>
    /\ UNCHANGED <<schedVars, fileVars, captureVars, lockVars, funmapVars,
                   ptraceVars, shareVars, fmapVars>>

\* user.rs:321: self.fmap.lock().insert(id, ..), then call_inner
FmapInsert(c) ==
    /\ cl[c].pc = "fmap"
    /\ fmaptab' = fmaptab \cup {cl[c].id}
    /\ cl' = [cl EXCEPT ![c].pc = "id"]
    /\ UNCHANGED wres
    /\ UNCHANGED <<next_id, todo, done, unmounting, nonblock, srv, answered>>
    /\ UNCHANGED <<schedVars, fileVars, captureVars, lockVars, funmapVars,
                   ptraceVars, shareVars>>

\* a table that keeps the entry of a completed fmap
TableRemove_Keeps(tab, id) == tab

\* user.rs:249: self.fmap.lock().remove(&packet.id)
TableRemove(tab, id) == tab \ {id}

\* user.rs:249-272: the word write sends for the packet p: for a pending
\* fmap answered with an address, the result of mapping it into the caller
\* (Error::mux of capture_inner's result, here the word g); otherwise the
\* word of the packet
StoredWord(tab, p, g) ==
    IF p.id \in tab /\ demux(p.a).ok THEN g ELSE p.a

\* the packets of the buffer as write sends them, in order; the entry of
\* each id is taken from the table as its packet is handled
RECURSIVE Rewritten(_, _, _)
Rewritten(tab, pkts, g) ==
    IF pkts = << >> THEN << >>
    ELSE <<[Head(pkts) EXCEPT !.a = StoredWord(tab, Head(pkts), g)]>>
         \o Rewritten(TableRemove(tab, Head(pkts).id), Tail(pkts), g)

\* the table after the packets were handled
RECURSIVE TableAfter(_, _)
TableAfter(tab, pkts) ==
    IF pkts = << >> THEN tab
    ELSE TableAfter(TableRemove(tab, Head(pkts).id), Tail(pkts))

\* user.rs:234-283: write: the server writes a buffer of packets followed
\* by rem more bytes; g is the result word of the fmap completions
Write(pkts, rem, g) ==
    LET buflen == Len(pkts) * PacketSize + rem
        len == PacketsIn(buflen)
        applied == SubSeq(pkts, 1, Min(len, Len(pkts)))
        stored == Rewritten(fmaptab, applied, g)
    IN /\ done' = ApplyPackets(done, stored, len)
       /\ answered' = ApplyPackets(answered, stored, len)
       /\ fmaptab' = TableAfter(fmaptab, Completed(applied, len))
       /\ srv' = [srv EXCEPT
                    !.wr = [buf |-> buflen, res |-> Ok(len * PacketSize)],
                    !.held = {p \in @ : \A i \in 1 .. Len(applied) :
                                           applied[i].id # p.id}]
       /\ wres' = [pkts |-> pkts, stored |-> stored]
       /\ UNCHANGED <<next_id, todo, unmounting, nonblock, cl>>
       /\ UNCHANGED <<schedVars, fileVars, captureVars, lockVars, funmapVars,
                      ptraceVars, shareVars>>

\* the buffers a server writes: no packet, one, or two with the words 0 and 1
FmapBuffers ==
    WriteBuffers \cup
    {<<[id |-> i, a |-> 0], [id |-> j, a |-> 1]>> :
        i \in 0 .. MaxId, j \in 0 .. MaxId}

\* the result words of an fmap completion: an address, or an error
GrantWords == {1, WordMax}

RestIdle ==
    /\ FilesIdle /\ SchemeInit(FALSE) /\ CaptureInit /\ LocksIdle /\ FunmapInit
    /\ PtraceInit /\ ShareInit /\ FmapInit

Init == SchedInit(Cpus, {k + 1 : k \in Cpus}) /\ RestIdle

Next ==
    \/ \E k \in Cpus : SwitchAcquire(k)
    \/ \E k \in Cpus : SwitchUpdate(k)
    \/ \E k \in Cpus : SwitchSelect(k)
    \/ \E k \in Cpus : SwitchFinishHook(k)
    \/ \E k \in Cpus : Block(k)
    \/ \E k \in Cpus, t \in Times : Sleep(k, t)
    \/ \E k \in Cpus, d \in Ids : Unblock(k, d)
    \/ \E k \in Cpus : Spawn(k)

Spec == Init /\ [][Next]_vars

(***************************************************************************)
(* One CPU, its idle context and the other contexts of the table.          *)
(***************************************************************************)
InitUni == SchedInit({0}, Ids) /\ RestIdle

NextUni ==
    \/ \E k \in Cpus : SwitchAcquire(k)
    \/ \E k \in Cpus : SwitchUpdate(k)
    \/ \E k \in Cpus : SwitchSelect(k)
    \/ \E k \in Cpus : SwitchFinishHook(k)
    \/ \E k \in Cpus : Block(k)
    \/ \E k \in Cpus, d \in Ids : Unblock(k, d)
    \/ \E k \in Cpus, t \in Times : Sleep(k, t)
    \/ \E k \in Cpus, d \in Ids, b \in BOOLEAN : SetPtraceStop(k, d, b)

SpecUni == InitUni /\ [][NextUni]_vars

(***************************************************************************)
(* One CPU, its idle context and one user context that takes signals,      *)
(* returns from their handlers and is traced.                              *)
(***************************************************************************)
InitSig == SchedInit({0}, {1, 2}) /\ RestIdle

NextSig ==
    \/ \E k \in Cpus : SwitchAcquire(k)
    \/ \E k \in Cpus : SwitchUpdate(k)
    \/ \E k \in Cpus : SwitchSelect(k)
    \/ \E k \in Cpus : SwitchFinishHook(k)
    \/ \E k \in Cpus : Block(k)
    \/ \E k \in Cpus, d \in Ids : Unblock(k, d)
    \/ \E k \in Cpus, d \in Ids, sig \in Signals : Kill(k, d, sig)
    \/ \E k \in Cpus : SigReturn(k)
    \/ \E k \in Cpus, a \in RegVals, f \in RegVals, s \in RegVals :
          Execute(k, a, f, s)
    \/ \E k \in Cpus : SetProcessRegs(k)
    \/ \E k \in Cpus : ClearProcessRegs(k)
    \/ \E k \in Cpus, d \in Ids, b \in BOOLEAN : SetSinglestep(k, d, b)

SpecSig == InitSig /\ [][NextSig]_vars

(***************************************************************************)
(* A file table shared between contexts.                                   *)
(***************************************************************************)
NextShare ==
    \/ \E file \in Descriptors, min \in Handles : AddFileMinScan(file, min)
    \/ AddFileMinInsert
    \/ \E file \in Descriptors, i \in Handles : OtherInsert(i, file)
    \/ \E i \in Handles : OtherRemove(i)

SpecShare == Init /\ [][NextShare]_vars

(***************************************************************************)
(* The file table alone, under every sequence of its operations.           *)
(***************************************************************************)
NextFiles ==
    \/ \E file \in Descriptors, min \in Handles : AddFileMin(file, min)
    \/ \E file \in Descriptors, i \in Handles : InsertFile(i, file)
    \/ \E i \in Handles : RemoveFile(i)

SpecFiles == Init /\ [][NextFiles]_vars

(***************************************************************************)
(* Two CPUs, their idle contexts and one user context that sleeps, is sent *)
(* signals and returns from their handlers, while time passes.             *)
(***************************************************************************)
InitTime == SchedInit({0, 1}, {1, 2, 3}) /\ RestIdle

NextTime ==
    \/ \E k \in Cpus : SwitchAcquire(k)
    \/ \E k \in Cpus : SwitchUpdate(k)
    \/ \E k \in Cpus : SwitchSelect(k)
    \/ \E k \in Cpus : SwitchFinishHook(k)
    \/ \E k \in Cpus : Block(k)
    \/ \E k \in Cpus, t \in Times : Sleep(k, t)
    \/ \E k \in Cpus, d \in Ids : Unblock(k, d)
    \/ \E k \in Cpus, d \in Ids, sig \in Signals : Kill(k, d, sig)
    \/ \E k \in Cpus : SigReturn(k)
    \/ Tick

SpecTime == InitTime /\ [][NextTime]_vars

(***************************************************************************)
(* One CPU and its idle context; contexts are created, unblocked, block,   *)
(* are stopped and exit.                                                   *)
(***************************************************************************)
InitLife == SchedInit({0}, {1}) /\ RestIdle

NextLife ==
    \/ \E k \in Cpus : SwitchAcquire(k)
    \/ \E k \in Cpus : SwitchUpdate(k)
    \/ \E k \in Cpus : SwitchSelect(k)
    \/ \E k \in Cpus : SwitchFinishHook(k)
    \/ \E k \in Cpus : Spawn(k)
    \/ \E k \in Cpus : Block(k)
    \/ \E k \in Cpus, d \in Ids : Unblock(k, d)
    \/ \E k \in Cpus : Stop(k)
    \/ \E k \in Cpus : Exit(k)

SpecLife == InitLife /\ [][NextLife]_vars

(***************************************************************************)
(* The user scheme bridge alone: callers, the server and an unmount.       *)
(***************************************************************************)
InitScheme ==
    /\ SchedInit(Cpus, {k + 1 : k \in Cpus}) /\ FilesIdle /\ CaptureInit
    /\ LocksIdle /\ FunmapInit /\ PtraceInit /\ ShareInit /\ FmapInit
    /\ \E nb \in BOOLEAN : SchemeInit(nb)

NextScheme ==
    \/ \E c \in Callers : CallNextId(c)
    \/ \E c \in Callers : CallCheck(c)
    \/ \E c \in Callers : CallSend(c)
    \/ \E c \in Callers : CallReceive(c)
    \/ \E b \in BufLens : SrvRead(b)
    \/ SrvReadWake
    \/ SrvReadInterrupted
    \/ SrvSignal
    \/ \E pkts \in WriteBuffers, rem \in 0 .. (PacketSize - 1) : SrvWrite(pkts, rem)
    \/ Unmount

SpecScheme == InitScheme /\ [][NextScheme]_vars

(***************************************************************************)
(* The user scheme bridge with fmap calls, one call after the other, and   *)
(* a server that writes any packets.                                       *)
(***************************************************************************)
NextFmap ==
    \/ CallNextId(1)
    \/ FmapNextId(1)
    \/ FmapInsert(1)
    \/ CallCheck(1)
    \/ CallSend(1)
    \/ CallReceive(1)
    \/ \E pkts \in FmapBuffers, rem \in 0 .. (PacketSize - 1), g \in GrantWords :
           Write(pkts, rem, g)
    \/ Unmount

InitFmap == InitScheme /\ ~nonblock

SpecFmap == InitFmap /\ [][NextFmap]_vars

\* the server reads with a buffer that holds a packet while one is queued
SrvTake == \E b \in BufLens : PacketsIn(b) > 0 /\ todo # << >> /\ SrvRead(b)

\* the server answers a packet it has read
SrvAnswer ==
    \E p \in srv.held, a \in Words, rem \in 0 .. (PacketSize - 1) :
        SrvWrite(<<[id |-> p.id, a |-> a]>>, rem)

\* The server keeps reading and answering packets, and a caller whose
\* completion has arrived runs.
SchemeFairness ==
    /\ WF_vars(SrvTake)
    /\ WF_vars(SrvReadWake)
    /\ WF_vars(SrvAnswer)
    /\ \A c \in Callers : WF_vars(CallReceive(c))

SpecSchemeLive == SpecScheme /\ SchemeFairness

\* a server woken in read() runs again, with a packet or without
WakeFairness == SchemeFairness /\ WF_vars(SrvReadInterrupted)

SpecSchemeWake == SpecScheme /\ WakeFairness

(***************************************************************************)
(* Captures and releases in the address space of one server.               *)
(***************************************************************************)
NextCapture ==
    \/ \E a \in Addrs, n \in Addrs, checked \in BOOLEAN : Capture(a, n, checked)
    \/ \E a \in Addrs : Release(a)
    \/ ServerExit

SpecCapture == Init /\ [][NextCapture]_vars

InitLocks ==
    /\ SchedInit(Cpus, {k + 1 : k \in Cpus})
    /\ FilesIdle /\ SchemeInit(FALSE) /\ CaptureInit /\ FunmapInit
    /\ PtraceInit /\ ShareInit /\ FmapInit
    /\ \E sp \in [Capturers -> Spaces] : LocksInit(sp)

NextLocks ==
    \/ \E p \in Capturers, d \in Spaces : CapStart(p, d)
    \/ \E p \in Capturers : CapLock(p)
    \/ \E p \in Capturers : CapNoRoom(p)
    \/ \E p \in Capturers : CapFinish(p)

SpecLocks == InitLocks /\ [][NextLocks]_vars

NextFunmap ==
    \/ \E S \in ServerAddrs, size \in MapSizes : FmapComplete(S, size)
    \/ \E a \in FunmapAddrs, size \in FunmapSizes : Funmap(a, size)
    \/ Unmount

SpecFunmap == Init /\ [][NextFunmap]_vars

NextPtrace ==
    \/ \E f \in FileIds : try_new_session(f)
    \/ close_session
    \/ close_tracee
    \/ \E flags \in {None} \cup {Some(f) : f \in PtraceFlags} : set_breakpoint(flags)
    \/ recv_events
    \/ Resume
    \/ WaitCall
    \/ WaitGet
    \/ WaitCheck
    \/ WaitNotified
    \/ WaitInterrupted
    \/ \E m \in PtraceFlags : CallbackCall(m)
    \/ CallbackGet
    \/ CallbackCheck
    \/ CallbackNotified
    \/ CallbackInterrupted

SpecPtrace == Init /\ [][NextPtrace]_vars

\* the tracer thread and the tracee run when they can; signals and the
\* calls of other threads may or may not come
PtraceFairness ==
    /\ WF_vars(WaitGet) /\ WF_vars(WaitCheck) /\ WF_vars(WaitNotified)
    /\ WF_vars(CallbackGet) /\ WF_vars(CallbackCheck)
    /\ WF_vars(CallbackNotified)

SpecPtraceLive == SpecPtrace /\ PtraceFairness

(***************************************************************************)
(* Properties of the switcher.                                             *)
(***************************************************************************)
InSwitch(k) == pc[k] \in {"locked", "updated", "hook"}

\* CPU k's switch() takes its selection step, and selects a target
Selects(k) == pc[k] = "updated" /\ pc'[k] = "hook"

\* CPU k's switch() takes its selection step, and finds no target
ReturnsFalse(k) == pc[k] = "updated" /\ pc'[k] = "run"

\* the CPUs whose current context is c
RunningOn(c) == {k \in online : current[k] = c}

\* C1: a context with running = true is the current context of exactly one
\* CPU, in every state, and the target switch() marks running was not
\* running before.
C1_OneCpuPerRunningContext ==
    [][/\ \A c \in DOMAIN ctx :
              ctx'[c].running => Cardinality(RunningOn(c)') = 1
       /\ \A k \in Cpus :
              Selects(k) => /\ ~ctx[current'[k]].running
                            /\ ctx'[current'[k]].running
                            /\ current'[k] # current[k]]_vars

\* both CPUs have switched to a user context, and both run one
C1_Witness ==
    /\ \A k \in Cpus : pc[k] = "run" /\ ret[k] = "true" /\ IsUser(current[k])
    /\ \A c \in DOMAIN ctx : ctx[c].running <=> \E k \in Cpus : current[k] = c

\* C8: at most one CPU is between the successful compare-exchange of switch()
\* and the release of the global switch flag, and the flag is set exactly
\* while some CPU is there.
C8_SwitchFlagMutualExclusion ==
    /\ Cardinality({k \in Cpus : InSwitch(k)}) <= 1
    /\ lock <=> \E k \in Cpus : InSwitch(k)

\* a CPU is inside switch() while another CPU, which has switched before,
\* is outside
C8_Witness ==
    \E k, j \in Cpus :
        /\ k # j
        /\ pc[k] = "hook" /\ lock
        /\ pc[j] = "run" /\ ret[j] = "true"

\* C2: the context CPU k's switch() selects and marks running has
\* cpu_id = Some(k), and a context is marked running only by the switch() of
\* the CPU that owns it, whether or not the update pass of that switch() made
\* it Runnable.
C2_OnlyOwnerSelects ==
    [][/\ \A k \in Cpus :
              Selects(k) => /\ ctx[current'[k]].cpu_id = Some(k)
                            /\ ctx'[current'[k]].cpu_id = Some(k)
       /\ \A c \in DOMAIN ctx :
              ~ctx[c].running /\ ctx'[c].running =>
                  \E k \in Cpus : /\ Selects(k)
                                  /\ current'[k] = c
                                  /\ ctx[c].cpu_id = Some(k)]_vars

\* CPU k's switch() has returned; its update pass woke a context that another
\* CPU owns and that is runnable but for its owner, and k did not take it
C2_Witness ==
    \E k, j \in Cpus : \E c \in woken :
        /\ k # j
        /\ pc[k] = "run" /\ ret[k] = "false"
        /\ ctx[c].cpu_id = Some(j)
        /\ runnable(ctx[c], j)
        /\ current[k] # c

\* the least id of a non-empty set of ids
Least(S) == CHOOSE x \in S : \A y \in S : x <= y

\* the contexts other than the current one that CPU k may select
Eligible(k) ==
    {c \in DOMAIN ctx \ {current[k]} :
        /\ ~ctx[c].running /\ ~ctx[c].ptrace_stop
        /\ ctx[c].status = "Runnable" /\ ctx[c].cpu_id = Some(k)}

\* C3: switch() called from the context with id i selects the eligible
\* context with the smallest id greater than i if there is one, otherwise
\* the eligible context with the smallest id less than i.
C3_RoundRobin ==
    [][\A k \in Cpus :
          Selects(k) =>
              LET above == {c \in Eligible(k) : c > current[k]}
                  below == {c \in Eligible(k) : c < current[k]}
              IN current'[k] = IF above # {} THEN Least(above)
                               ELSE Least(below)]_vars

\* with every context of a full table Runnable on CPU 0, the switch() called
\* from the highest id has wrapped around to the lowest, past none
C3_Witness ==
    /\ DOMAIN ctx = Ids
    /\ pc[0] = "hook"
    /\ slot[0] = Some([prev_lock |-> NumContexts, next_lock |-> 1])
    /\ \A c \in Ids : /\ ctx[c].status = "Runnable" /\ ~ctx[c].ptrace_stop
                      /\ ctx[c].cpu_id = Some(0)

\* what a switch() that returns false must leave alone
SwitchFrame ==
    <<[c \in DOMAIN ctx |-> ctx[c].running],
      [c \in DOMAIN ctx |-> ctx[c].cpu_time], current, slot>>

\* C4: switch() returns true iff a context other than the current one is
\* eligible after the update pass, and then the current context changes; a
\* switch() that returns false has changed no running flag, no cpu_time, no
\* current id and no pending-unlock slot, and has released the flag.
C4_ReturnValue ==
    [][\A k \in Cpus :
          /\ Selects(k) \/ ReturnsFalse(k) =>
                 /\ ret'[k] = (IF Eligible(k) # {} THEN "true" ELSE "false")
                 /\ Selects(k) <=> ret'[k] = "true"
          /\ Selects(k) =>
                 /\ current'[k] # current[k]
                 /\ current'[k] \in Eligible(k)
          /\ ReturnsFalse(k) => ~lock' /\ slot'[k] = None
          /\ pc[k] \in {"run", "locked", "updated"} /\ pc'[k] # pc[k]
                /\ ~Selects(k) => SwitchFrame' = SwitchFrame]_vars

\* switch() has returned false although other contexts are Runnable: one is
\* stopped by its tracer, and the current one was not taken again
C4_Witness ==
    /\ pc[0] = "run" /\ ret[0] = "false" /\ ~lock
    /\ ctx[current[0]].status = "Runnable"
    /\ \E c \in DOMAIN ctx \ {current[0]} :
          ctx[c].status = "Runnable" /\ ctx[c].ptrace_stop

RECURSIVE SumOver(_, _)
SumOver(f, S) ==
    IF S = {} THEN 0
    ELSE LET x == CHOOSE y \in S : TRUE IN f[x] + SumOver(f, S \ {x})

TotalCpuTime == SumOver([c \in DOMAIN ctx |-> ctx[c].cpu_time], DOMAIN ctx)

\* C9: the sum of cpu_time over all contexts never decreases; a context's
\* cpu_time changes only when a switch() switches it out, and then it grows
\* by the switch_time of that switch() minus the switch_time stamped on the
\* context when it was switched in, which is never negative.
C9_CpuTimeMonotonic ==
    [][/\ TotalCpuTime' >= TotalCpuTime
       /\ \A c \in DOMAIN ctx :
              ctx'[c].cpu_time # ctx[c].cpu_time =>
                  \E k \in Cpus :
                      /\ Selects(k) /\ current[k] = c
                      /\ swtime[k] >= ctx[c].switch_time
                      /\ ctx'[c].cpu_time =
                             ctx[c].cpu_time + (swtime[k] - ctx[c].switch_time)
       /\ \A k \in Cpus :
              Selects(k) => ctx'[current'[k]].switch_time = swtime[k]]_vars

\* two contexts have been switched out after running for some time, the
\* second one after it was switched in later than at boot
C9_Witness ==
    \E c, d \in DOMAIN ctx :
        /\ c # d
        /\ ctx[c].cpu_time > 0
        /\ ctx[d].cpu_time > 0
        /\ ctx[d].switch_time > 0
        /\ ~ctx[d].running

\* the update pass of CPU k's switch() takes place
Updates(k) == pc[k] = "locked" /\ pc'[k] = "updated"

\* c sleeps: it is Blocked and has a wake time
Sleeping(c) == c.status = "Blocked" /\ c.wake # None

\* no signal wakes c: none is pending and no signal restore is due
NoSignalDue(c) == c.pending = << >> /\ ~(c.ksig_restore /\ ~c.running)

\* C6 as stated: a context that is Blocked with wake = Some(t), t > now, is
\* still Blocked with the same wake after the update pass, whatever its other
\* fields hold.
C6_AsStated ==
    [][\A k \in Cpus : \A c \in DOMAIN ctx :
          Updates(k) /\ Sleeping(ctx[c]) /\ Unwrap(ctx[c].wake) > now =>
              ctx'[c].status = "Blocked" /\ ctx'[c].wake = ctx[c].wake]_vars

\* C6, amended: a context that is Blocked with wake = Some(t), t > now, with
\* no signal pending and no signal restore due, is still Blocked with the
\* same wake after the update pass.
C6_SleeperStaysBlocked ==
    [][\A k \in Cpus : \A c \in DOMAIN ctx :
          /\ Updates(k) /\ Sleeping(ctx[c]) /\ Unwrap(ctx[c].wake) > now
          /\ NoSignalDue(ctx[c])
          => ctx'[c].status = "Blocked" /\ ctx'[c].wake = ctx[c].wake]_vars

\* an update pass has run over a context that was switched out asleep, and
\* its wake time is still ahead
C6_Witness ==
    \E k \in Cpus : \E c \in DOMAIN ctx :
        /\ pc[k] = "updated"
        /\ Sleeping(ctx[c]) /\ Unwrap(ctx[c].wake) > now
        /\ ~ctx[c].running /\ ctx[c].cpu_time > 0

\* whether some CPU could select c
Selectable(c) == \E k \in Cpus : runnable(c, k)

\* what C5 says of the update pass of CPU k over the sleeping context c
WakeUpAtUpdate(k, c) ==
    IF now < Unwrap(ctx[c].wake)
    THEN ~Selectable(ctx'[c])
    ELSE /\ ctx'[c].wake = None
         /\ ctx'[c].status = "Runnable"
         /\ ~ctx[c].running /\ ~ctx[c].ptrace_stop =>
                runnable(ctx'[c], Unwrap(ctx'[c].cpu_id))

\* C5 as stated: a Blocked context with wake = Some(t) cannot be selected
\* after an update pass that runs while monotonic() < t; an update pass that
\* runs with monotonic() >= t sets its wake to None and makes it Runnable,
\* so that its owning CPU may select it in that same switch().
C5_AsStated ==
    [][\A k \in Cpus : \A c \in DOMAIN ctx :
          Updates(k) /\ Sleeping(ctx[c]) => WakeUpAtUpdate(k, c)]_vars

\* C5, amended: the same, for a sleeping context with no signal pending and
\* no signal restore due.
C5_SleepWakeUp ==
    [][\A k \in Cpus : \A c \in DOMAIN ctx :
          Updates(k) /\ Sleeping(ctx[c]) /\ NoSignalDue(ctx[c])
          => WakeUpAtUpdate(k, c)]_vars

\* the update pass of the owning CPU has woken a sleeper that no signal was
\* sent to, some time after it went to sleep, and may select it
C5_Witness ==
    \E k \in Cpus : \E c \in woken :
        /\ pc[k] = "updated"
        /\ now > 0
        /\ ctx[c].wake = None /\ ctx[c].pending = << >> /\ ctx[c].ksig = None
        /\ runnable(ctx[c], k)

\* the state saved when the signal of c was entered
EntrySnapshot(c) == Unwrap(sigentry[c])

\* the update pass of CPU k restores c from its signal
Restores(k, c) == Updates(k) /\ RestoreDue(ctx[c]) /\ sigentry[c] # None

SlotOf(fs, i) == IF i < Len(fs) THEN fs[i + 1] ELSE None

\* the indices at or after m that are free in the file table fs
FreeFrom(fs, m) ==
    {i \in 0 .. (CONTEXT_MAX_FILES - 1) : i >= m /\ SlotOf(fs, i) = None}

\* C10: add_file_min(f, m) stores f at, and returns, the smallest index
\* i >= m that is free (an empty slot or an index past the current length,
\* below CONTEXT_MAX_FILES); it returns None if and only if there is no such
\* index; every other slot is unchanged.
C10_AddFileMin ==
    [][fres'.op = "add_file_min" =>
          LET m == fres'.arg
              free == FreeFrom(files, m)
          IN /\ fres'.ret = None <=> free = {}
             /\ free # {} =>
                   /\ fres'.ret = Some(Least(free))
                   /\ SlotOf(files', Least(free)) = Some(fres'.file)
             /\ \A i \in Handles :
                   fres'.ret # Some(i) => SlotOf(files', i) = SlotOf(files, i)
             /\ Len(files') <= CONTEXT_MAX_FILES]_vars

\* add_file_min has stored a file at its min, past an empty slot below it
\* and past the end of the table before the call
C10_Witness ==
    /\ fres.op = "add_file_min"
    /\ fres.arg > 1
    /\ fres.ret = Some(fres.arg)
    /\ files[1] # None
    /\ files[2] = None
    /\ files[fres.arg + 1] = Some(fres.file)

\* add_file_min has skipped occupied slots at and after its min
C10_WitnessSkip ==
    /\ fres.op = "add_file_min"
    /\ fres.ret # None
    /\ Unwrap(fres.ret) > fres.arg

\* add_file_min has found no free index although a slot below min is empty
C10_WitnessNone ==
    /\ fres.op = "add_file_min"
    /\ fres.ret = None
    /\ fres.arg < CONTEXT_MAX_FILES
    /\ \E i \in 0 .. (fres.arg - 1) : SlotOf(files, i) = None

\* C11: insert_file(i, f) returns None when slot i is occupied or
\* i >= CONTEXT_MAX_FILES, and then every slot keeps its descriptor;
\* otherwise it returns i, slot i holds f and every other slot keeps its
\* descriptor; the table is never longer than CONTEXT_MAX_FILES.
C11_InsertFile ==
    [][fres'.op = "insert_file" =>
          LET i == fres'.arg
              fails == i >= CONTEXT_MAX_FILES \/ SlotOf(files, i) # None
          IN /\ fres'.ret = None <=> fails
             /\ fails => \A j \in Handles : SlotOf(files', j) = SlotOf(files, j)
             /\ ~fails =>
                   /\ fres'.ret = Some(i)
                   /\ SlotOf(files', i) = Some(fres'.file)
                   /\ \A j \in Handles \ {i} :
                          SlotOf(files', j) = SlotOf(files, j)
             /\ Len(files') <= CONTEXT_MAX_FILES]_vars

\* insert_file has refused an occupied slot, whose descriptor is another
\* one than the one it was given
C11_Witness ==
    /\ fres.op = "insert_file"
    /\ fres.ret = None
    /\ fres.arg < CONTEXT_MAX_FILES
    /\ SlotOf(files, fres.arg) # None
    /\ SlotOf(files, fres.arg) # Some(fres.file)

\* insert_file has stored a file past the end of the table, over a gap
C11_WitnessPadded ==
    /\ fres.op = "insert_file"
    /\ fres.ret = Some(CONTEXT_MAX_FILES - 1)
    /\ Len(files) = CONTEXT_MAX_FILES
    /\ files[1] = None

\* the context x with its status set to st and nothing else changed
WithStatus(x, st) == [x EXCEPT !.status = st]

\* C12: a context that enters the table is as Context::new returns it:
\* Blocked, not running, unowned, with no address space and an empty file
\* table; switch() selects only Runnable contexts and a context becomes
\* Runnable only from Blocked, so a new context is not selected before it is
\* unblocked; block() and unblock() only move the status between Runnable
\* and Blocked and leave Stopped and Exited contexts as they are.
C12_Lifecycle ==
    [][/\ \A c \in DOMAIN ctx' \ DOMAIN ctx :
              /\ ctx'[c].status = "Blocked"
              /\ ~ctx'[c].running
              /\ ctx'[c].cpu_id = None
              /\ ctx'[c].addr_space = None
              /\ ctx'[c].files = << >>
       /\ \A k \in Cpus :
              Selects(k) => ctx[current'[k]].status = "Runnable"
       /\ \A c \in DOMAIN ctx :
              ctx[c].status # "Runnable" /\ ctx'[c].status = "Runnable" =>
                  ctx[c].status = "Blocked"
       /\ \A c \in DOMAIN ctx :
              LET x == ctx[c] IN
              /\ block(x) = IF x.status = "Runnable"
                            THEN WithStatus(x, "Blocked") ELSE x
              /\ unblock(x) = IF x.status = "Blocked"
                              THEN WithStatus(x, "Runnable") ELSE x
              /\ x.status \in {"Stopped", "Exited"} =>
                     block(x) = x /\ unblock(x) = x]_vars

\* a created context was unblocked, selected and runs; another one was
\* stopped and switched out; a third one was created and claimed by the
\* update pass but never unblocked
C12_Witness ==
    \E c, d, e \in DOMAIN ctx :
        /\ IsUser(c) /\ ctx[c].running /\ current[0] = c
        /\ ctx[d].status \in {"Stopped", "Exited"} /\ ~ctx[d].running
        /\ ctx[e].status = "Blocked" /\ ctx[e].cpu_id # None
        /\ ctx[e].switch_time = 0 /\ ctx[e].cpu_time = 0

\* where the packet with the id i is: how often it is queued in todo, held
\* by the server, or completed in done
Copies(i) ==
    Cardinality({n \in 1 .. Len(todo) : todo[n].id = i})
    + Cardinality({p \in srv.held : p.id = i})
    + (IF i \in DOMAIN done THEN 1 ELSE 0)

\* caller c returns from call() with a completion
Completes(c) == cl[c].pc = "wait" /\ cl'[c].pc = "idle"

\* C13: the packet of a waiting caller is in exactly one place (queued,
\* read by the server, or completed), so it is completed exactly once; the
\* caller returns the decoded result word the server wrote for its own id;
\* and, with a server that keeps reading and answering, every waiting
\* caller eventually returns.
C13_CallCompletes ==
    /\ [](\A c \in Callers : cl[c].pc = "wait" => Copies(cl[c].id) = 1)
    /\ [][\A c \in Callers :
             Completes(c) =>
                 /\ cl[c].id \in DOMAIN answered
                 /\ cl'[c].ret =
                        IF answered[cl[c].id] > WordMax - MaxErrno
                        THEN Errno(WordMax + 1 - answered[cl[c].id])
                        ELSE Ok(answered[cl[c].id])
                 /\ cl[c].id \notin DOMAIN done']_vars
    /\ \A c \in Callers : (cl[c].pc = "wait") ~> (cl[c].pc = "idle")

\* both callers have returned from call(), each with the word written for
\* its id, one a value and one an error, the later id completed first
C13_Witness ==
    /\ \A c \in Callers : cl[c].pc = "idle" /\ cl[c].id # 0
    /\ cl[1].id # cl[2].id
    /\ DOMAIN answered = {cl[1].id, cl[2].id}
    /\ cl[1].ret = Ok(answered[cl[1].id])
    /\ cl[2].ret = Errno(1)
    /\ done = << >>

\* the ids of a sequence are strictly increasing
StrictlyIncreasing(q) == \A i, j \in 1 .. Len(q) : i < j => q[i] < q[j]

\* C14 as stated: the non-zero packet ids the server obtains from
\* successive read() calls are strictly increasing, for any interleaving of
\* the callers.
C14_AsStated == StrictlyIncreasing(srv.got)

\* the result of the read() the server just returned from
ReadRes == srv'.rd.res

\* a positive multiple of the packet size
PositiveMultiple(res) ==
    res.ok /\ res.val > 0 /\ res.val % PacketSize = 0

\* C15 as stated: read() with a packet queued returns a positive multiple
\* of the packet size; with none it returns 0 when unmounting, else EAGAIN
\* on a non-blocking handle, else it blocks; a blocking wait ended by a
\* signal returns EINTR.
C15_AsStated ==
    [][/\ \A b \in BufLens :
              SrvRead(b) =>
                  IF todo # << >> THEN PositiveMultiple(ReadRes)
                  ELSE IF unmounting THEN ReadRes = Ok(0)
                  ELSE IF nonblock THEN ReadRes = Err("EAGAIN")
                  ELSE srv'.pc = "blocked"
       /\ SrvReadInterrupted => ReadRes = Err("EINTR")]_vars

\* C15: read() with a buffer that holds at least one whole packet and a
\* packet queued returns a positive multiple of the packet size, not more
\* than the buffer holds; with a buffer shorter than one packet it returns
\* no packet; with no packet to return it returns 0 when unmounting, else
\* EAGAIN on a non-blocking handle, else (buffer of at least one packet) it
\* blocks; a blocked read woken by a packet returns a positive multiple,
\* and one ended by a signal returns EINTR unless the scheme is unmounting
\* by then, when it returns 0.
C15_Read ==
    [][/\ \A b \in BufLens :
              SrvRead(b) =>
                  IF todo # << >> /\ b >= PacketSize
                  THEN PositiveMultiple(ReadRes) /\ ReadRes.val <= b
                  ELSE /\ todo' = todo
                       /\ IF unmounting THEN ReadRes = Ok(0)
                          ELSE IF nonblock THEN ReadRes = Err("EAGAIN")
                          ELSE b >= PacketSize => srv'.pc = "blocked"
       /\ SrvReadWake =>
              PositiveMultiple(ReadRes) /\ ReadRes.val <= srv.rd.buf
       /\ SrvReadInterrupted =>
              ReadRes = IF unmounting THEN Ok(0) ELSE Err("EINTR")]_vars

\* a read blocked, the scheme was unmounted meanwhile, and the read
\* returned 0 with a packet left in the queue
C15_Witness ==
    /\ srv.pc = "idle" /\ srv.rd.res = Ok(0) /\ srv.rd.buf >= PacketSize
    /\ unmounting /\ ~nonblock
    /\ srv.got = << >> /\ todo = << >>

\* C16 as stated: a read() or write() whose buffer length is not a whole
\* multiple of the packet size returns an error.
C16_AsStated ==
    [][/\ \A b \in BufLens :
              (b % PacketSize # 0 /\ SrvRead(b) /\ srv'.pc = "idle")
                  => ~ReadRes.ok
       /\ \A pkts \in WriteBuffers, rem \in 1 .. (PacketSize - 1) :
              SrvWrite(pkts, rem) => ~srv'.wr.res.ok]_vars

\* ceil(n / PAGE_SIZE) and floor(n / PAGE_SIZE) over the integers
CeilPage(n) == (n + PAGE_SIZE - 1) \div PAGE_SIZE
FloorPage(n) == n \div PAGE_SIZE

\* C17 as stated: for every source address a and length n > 0 the capture
\* does not fail on its arithmetic, and a capture that succeeds borrows the
\* pages floor(a/PAGE) .. ceil((a+n)/PAGE) of the caller and returns the
\* start of the destination page plus a mod PAGE.
C17_AsStated ==
    (cres.op = "capture" /\ cres.n > 0) =>
        /\ cres.ret # Err("panic")
        /\ cres.ret.ok =>
               /\ cres.made # None
               /\ \A made \in cres.made :
                      /\ made.src = FloorPage(cres.a)
                      /\ made.count = CeilPage(cres.a + cres.n) - FloorPage(cres.a)
                      /\ cres.ret.val = made.dst * PAGE_SIZE + (cres.a % PAGE_SIZE)

\* a step of capture_inner or release: every other step of the
\* specification changes server, and cres' describes the call
DidCapture == server' = server /\ cres'.op = "capture"
DidRelease == server' = server /\ cres'.op = "release"

\* C18: a capture of length 0 returns the dangling sentinel, takes no
\* address-space lock and creates no grant, whether or not the server is
\* alive; release of the dangling sentinel returns Ok, takes no lock and
\* leaves the grants as they are.
C18_ZeroLength ==
    [][/\ (DidCapture /\ cres'.n = 0) =>
              /\ cres'.ret = Ok(DANGLING)
              /\ ~cres'.locked
              /\ cres'.made = None
              /\ grants' = grants
       /\ (DidRelease /\ cres'.a = DANGLING) =>
              /\ cres'.ret.ok
              /\ ~cres'.locked
              /\ cres'.gone = None
              /\ grants' = grants]_vars

\* the dangling sentinel was released while the server holds a grant
C18_Witness ==
    /\ cres.op = "release" /\ cres.a = DANGLING /\ cres.ret.ok
    /\ grants # {}

\* an empty buffer at an unaligned address was captured while the server
\* holds a grant
C18_WitnessCapture ==
    /\ cres.op = "capture" /\ cres.n = 0 /\ cres.a % PAGE_SIZE # 0
    /\ cres.ret = Ok(DANGLING)
    /\ grants # {}

\* C19 as stated: release of an address that lies in no grant of the
\* server's address space returns EFAULT and leaves the grants unchanged.
C19_AsStated ==
    [][(DidRelease /\ server /\ GrantAt(grants, cres'.a) = {}) =>
           cres'.ret = Err("EFAULT") /\ grants' = grants]_vars

\* C19: release of an address other than the dangling sentinel that lies
\* in no grant of the live server's address space returns EFAULT and
\* leaves the grants unchanged.
C19_ReleaseUnknown ==
    [][(/\ DidRelease /\ server
        /\ cres'.a # DANGLING
        /\ GrantAt(grants, cres'.a) = {}) =>
           /\ cres'.ret = Err("EFAULT")
           /\ cres'.gone = None
           /\ grants' = grants]_vars

\* an address outside the grant the server holds was released: EFAULT
C19_Witness ==
    /\ cres.op = "release" /\ cres.ret = Err("EFAULT")
    /\ cres.a # DANGLING
    /\ grants # {}

\* C20: a successful capture of n > 0 bytes adds exactly one grant, which
\* holds the returned address, and a release of the address a capture
\* returned removes exactly the grant that capture made, whatever other
\* grants the server holds.
C20_RoundTrip ==
    [][/\ (DidCapture /\ cres'.n > 0 /\ cres'.ret.ok) =>
              \E g \in grants' \ grants :
                  /\ grants' = grants \cup {g}
                  /\ g.addr = cres'.ret.val
                  /\ GrantAt(grants', g.addr) = {g}
       /\ DidRelease =>
              \A g \in grants :
                  g.addr = cres'.a =>
                      /\ cres'.ret.ok
                      /\ cres'.gone = Some(g)
                      /\ grants' = grants \ {g}]_vars

\* the capture of a buffer that starts inside a page was released while
\* the server holds a grant made before it at a lower page
C20_Witness ==
    /\ cres.op = "release" /\ cres.ret.ok /\ cres.gone # None
    /\ \A g \in cres.gone :
           /\ g.addr % PAGE_SIZE # 0
           /\ \E h \in grants : h.start < g.start

\* C21 as stated: a capture between two address spaces takes the write
\* lock of the caller's (current) address space first and the destination's
\* second; a capture within one address space takes its lock once.
C21_AsStated ==
    \A p \in Capturers :
        IF capt[p].dst = space[p]
        THEN Len(capt[p].took) <= 1
        ELSE capt[p].took # << >> => capt[p].took[1] = space[p]

\* the capture of p waits for a lock whose holder waits for a lock p holds
WaitsInCycle(p) ==
    /\ NextLock(p) # 0
    /\ \E q \in Capturers \ {p} :
           /\ aslock[NextLock(p)] = q
           /\ NextLock(q) # 0
           /\ aslock[NextLock(q)] = p

\* C22 as stated: captures never deadlock on the address-space locks: no
\* two captures each hold the write lock the other spins on, a state from
\* which neither acquires its locks and returns.
C22_AsStated == \A p \in Capturers : ~WaitsInCycle(p)

\* the server address the funmap table gives for a caller address: that
\* of the entry funmap finds, if the address lies in its region
Translation(table, address) ==
    {Rebase(e, address) : e \in {f \in FindEntry(table, address) :
                                    address < EndOf(f)}}

\* funmap was called for the bytes d .. d + len - 1 of the mapping m, all
\* of them still in the table
FunmapInside(m, d, len) ==
    /\ fmres'.op = "funmap" /\ fmres'.addr = m.u + d /\ fmres'.size = len
    /\ unmounting' = unmounting
    /\ d + len <= m.size
    /\ \A x \in d .. (d + len - 1) : Translation(funmap, m.u + x) # {}

\* C23 as stated: after an fmap completion mapped server address S at
\* caller address U for size bytes, funmap(U + d, len) of a range inside
\* the mapping sends exactly one SYS_FUNMAP packet with address S + d, and
\* every byte U + x of the mapping that the table still holds translates
\* to S + x.
C23_AsStated ==
    /\ [][\A m \in mapped : \A d \in 0 .. (m.size - 1), len \in FunmapSizes :
              FunmapInside(m, d, len) =>
                  fmres'.sent = {[a |-> "SYS_FUNMAP", b |-> m.s + d, c |-> len]}]_vars
    /\ [](\A m \in mapped : \A x \in 0 .. (m.size - 1) :
              Translation(funmap, m.u + x) \subseteq {m.s + x})

\* the table entry of one mapping took the server address of another by
\* funmap calls inside the mappings
C23_Clobbered ==
    /\ \E m \in mapped : \E x \in 0 .. (m.size - 1) :
           /\ Translation(funmap, m.u + x) # {}
           /\ Translation(funmap, m.u + x) # {m.s + x}
    /\ ~unmounting
    /\ fmres.op = "funmap"
    /\ \E m \in mapped : fmres.addr = m.u /\ fmres.size = m.size

\* a step of funmap: cres' describes the call
DidFunmap == fmres'.op = "funmap" /\ unmounting' = unmounting

\* the recorded regions that start at or below the address
AtOrBelow(table, address) == {e \in table : e.start <= address}

\* the one of them that starts highest
Highest(es) == CHOOSE e \in es : \A f \in es : f.start <= e.start

C24_WitnessBelow ==
    /\ fmres.op = "funmap" /\ fmres.ret = Err("EINVAL")
    /\ funmap # {}
    /\ \A e \in funmap : fmres.addr < e.start

\* C25: once unmount() has set the unmounting flag it stays set, and a
\* caller that has not passed the check of call_inner by then (its call
\* starts afterwards, or has only taken its id) returns ENODEV: it pushes
\* no packet into todo and never waits for a completion.
C25_Unmounted ==
    /\ [][unmounting => unmounting']_vars
    /\ [][\A c \in Callers :
             (unmounting /\ cl[c].pc \in {"idle", "id"} /\ cl'[c] # cl[c]) =>
                 /\ todo' = todo
                 /\ cl'[c].pc \in {"idle", "id"}
                 /\ cl[c].pc = "id" =>
                        cl'[c].pc = "idle" /\ cl'[c].ret = Err("ENODEV")]_vars

\* a call made after unmount() returned ENODEV while a call made before it
\* still waits for its completion
C25_Witness ==
    /\ unmounting
    /\ \E c, d \in Callers :
           /\ cl[c].pc = "idle" /\ cl[c].ret = Err("ENODEV")
           /\ cl[d].pc = "wait" /\ cl[d].id < cl[c].id


\* the callback returned r
Returned(r) == [done |-> TRUE, val |-> r]

\* the callback took its decision under the data lock in this step
CallbackDecides == te.pc = "got" /\ te'.pc # "got"

\* the callback found no session in this step
CallbackNoSession == te.pc = "start" /\ te'.pc # "start" /\ sess = 0

\* the data of the session s is as it was, while someone still holds s
LeftAlone(s) ==
    s \in Holders(sess', tr', te') => sdata'[s] = sdata[s]

\* C26: breakpoint_callback(M, _) stops the tracee (sets reached, queues one
\* event, sleeps on the tracee condition) exactly when a breakpoint is
\* armed whose flags F hold every bit of M; with no session, no breakpoint
\* or a bit of M missing from F it returns None and leaves the breakpoint
\* and the event queue as they were.
C26_Callback ==
    [][/\ CallbackDecides =>
            LET data == sdata[te.s]
                stops == /\ data.breakpoint # None
                         /\ te.m \subseteq Unwrap(data.breakpoint).flags
            IN  IF stops
                THEN /\ te'.pc = "asleep"
                     /\ waiting'[te.s].tracee
                     /\ is_reached(sdata'[te.s])
                     /\ sdata'[te.s].events = Append(data.events, te.m)
                ELSE /\ te'.pc = "idle"
                     /\ te'.ret = Returned(None)
                     /\ LeftAlone(te.s)
       /\ CallbackNoSession =>
            /\ te'.pc = "idle"
            /\ te'.ret = Returned(None)
            /\ sdata' = sdata]_vars

\* the tracee stopped at a breakpoint that asks for more than it matched
C26_Witness ==
    /\ te.pc = "asleep"
    /\ te.m # te.bp
    /\ is_reached(sdata[te.s])

\* the callback returned None from a session with a breakpoint armed
C26_WitnessNone ==
    /\ te.pc = "idle"
    /\ te.ret = Returned(None)
    /\ sess # 0
    /\ sdata[sess].breakpoint # None
    /\ ~is_reached(sdata[sess])
    /\ sdata[sess].events = << >>


\* C29: the traced context id has at most one session: the session the map
\* holds stays the same one from the successful try_new_session that made
\* it until close_session takes it out (close_tracee and everything else
\* leave it in the map), and a try_new_session while it is there returns
\* false and leaves the session, its breakpoint, events and file id alone.
C29_OneSession ==
    [][/\ (sess # 0 /\ sess' # sess) => close_session
       /\ (sess = 0 /\ sess' # 0) =>
            /\ pres' = [called |-> TRUE, ok |-> TRUE]
            /\ sdata'[sess'].breakpoint = None
            /\ sdata'[sess'].events = << >>
       /\ (sess # 0 /\ pres' # pres) =>
            /\ pres' = [called |-> TRUE, ok |-> FALSE]
            /\ sess' = sess
            /\ sdata' = sdata
            /\ waiting' = waiting]_vars

\* a try_new_session was refused while the session had a breakpoint reached
\* and an event queued
C29_Witness ==
    /\ pres = [called |-> TRUE, ok |-> FALSE]
    /\ sess # 0
    /\ is_reached(sdata[sess])
    /\ sdata[sess].events # << >>
    /\ sdata[sess].file_id = NumFileIds


\* wait(pid) returns in this step
WaitReturns == tr.pc \in {"got", "asleep"} /\ tr'.pc = "idle"

\* the breakpoint of the tracer's session is reached or an event is unread
Ready == is_reached(sdata[tr.s]) \/ sdata[tr.s].events # << >>

\* C28 as stated: while the session exists wait(pid) returns only when the
\* breakpoint is reached or the event queue is not empty.
C28_AsStated ==
    [][(WaitReturns /\ sess = tr.s) => Ready]_vars

\* C28, amended: while the session exists wait(pid) returns only when the
\* breakpoint is reached or the event queue is not empty, or when a notify
\* of the tracer condition woke it; it goes to sleep only when neither
\* holds, and a wake-up that no notify caused sends it round the loop to
\* look the session up and check again.
C28_WaitReturns ==
    [][/\ WaitReturns =>
            \/ Ready
            \/ tr.pc = "asleep" /\ ~waiting[tr.s].tracer
       /\ (tr.pc = "got" /\ tr'.pc = "asleep") =>
            ~Ready /\ waiting'[tr.s].tracer
       /\ (tr.pc = "got" /\ tr'.pc # "got") =>
            tr'.pc = (IF Ready THEN "idle" ELSE "asleep")
       /\ (tr.pc = "asleep" /\ waiting[tr.s].tracer /\ tr'.pc # "asleep") =>
            tr'.pc = "start"]_vars

\* wait returned after close_tracee's notify: the session is there, its
\* breakpoint is not reached and no event is queued
C28_Witness ==
    /\ tr.pc = "idle"
    /\ tr.why = "notified"
    /\ tr.closed
    /\ nsess = 1
    /\ sess = 1
    /\ ~is_reached(sdata[sess])
    /\ sdata[sess].events = << >>


\* the callback stops the tracee in this step
TraceeStops == te.pc = "got" /\ te'.pc = "asleep"

\* a callback that stopped the tracee returns in this step
StoppedReturns == te.stopped /\ te.pc # "idle" /\ te'.pc = "idle"

\* the tracer is in wait(pid) and holds a session
InWait == tr.pc \in {"got", "asleep"}

\* no lost wake-up between the two: the tracer is never asleep on the
\* tracer condition of a session whose breakpoint is reached or whose
\* queue holds an event
C27_NoLostWakeup ==
    (tr.pc = "asleep" /\ waiting[tr.s].tracer) => ~Ready

\* a stop leaves reached set and an event queued and wakes the tracer, and
\* a tracer in wait with that pending returns
C27_TracerReturns ==
    /\ [][TraceeStops =>
            /\ is_reached(sdata'[te.s])
            /\ sdata'[te.s].events # << >>
            /\ ~waiting'[te.s].tracer]_vars
    /\ [][(WaitReturns /\ tr'.why = "ready") =>
            is_reached(sdata[tr.s]) \/ sdata[tr.s].events # << >>]_vars
    /\ (InWait /\ Ready) ~> (tr.pc = "idle")

\* C27 as stated: when the callback stops the tracee, a tracer in wait on
\* that session is woken and returns with reached set and an event queued,
\* whatever the interleaving; the callback that stopped the tracee returns
\* only from its sleep, after a notify of the tracee condition, and with
\* Some(F), the flags armed when it stopped.
C27_AsStated ==
    /\ []C27_NoLostWakeup
    /\ C27_TracerReturns
    /\ [][StoppedReturns =>
            /\ te.pc = "asleep"
            /\ ~waiting[te.s].tracee
            /\ te'.ret = Returned(Some(te.bp))]_vars

\* the tracee, woken by a signal after the tracer cleared the breakpoint,
\* returned None from a callback that had stopped it
C27_ReturnedNone ==
    /\ te.pc = "idle"
    /\ te.stopped
    /\ te.ret = Returned(None)
    /\ sess # 0
    /\ sdata[sess].breakpoint = None
    /\ sdata[sess].events # << >>


\* a tracee that was asleep on the tracee condition when close_session ran
\* returns from its callback
C30_TraceeReturns == te.closed ~> (te.pc = "idle")

\* C30 as stated: a tracer that is in wait(pid) when close_tracee or
\* close_session runs eventually returns from wait, and a tracee asleep in
\* breakpoint_callback when close_session runs eventually returns from it,
\* whatever the interleaving.
C30_AsStated ==
    /\ tr.closed ~> (tr.pc = "idle")
    /\ C30_TraceeReturns

\* the tracer went to sleep on the tracer condition of a session after
\* close_session had removed it and notified
C30_AsleepAfterClose ==
    /\ tr.pc = "asleep"
    /\ tr.closed
    /\ waiting[tr.s].tracer
    /\ sess = 0
    /\ te.pc = "idle"


\* C31: switch() never switches into a context whose ksig_restore flag is
\* set: between the update pass and the selection of a switch() every
\* context the selection predicate accepts has ksig_restore cleared, and
\* the context selected has it cleared before and after the swap.
C31_RestoredBeforeSelected ==
    /\ [](\A k \in Cpus : \A c \in DOMAIN ctx :
            (pc[k] = "updated" /\ runnable(ctx[c], k)) => ~ctx[c].ksig_restore)
    /\ [][\A k \in Cpus :
            Selects(k) => /\ ~ctx[current'[k]].ksig_restore
                          /\ ~ctx'[current'[k]].ksig_restore]_vars

\* a switch() has selected a context that its own update pass restored
\* from a signal
C31_Witness ==
    \E k \in Cpus :
        /\ pc[k] = "hook"
        /\ current[k] \in restored
        /\ ctx[current[k]].ksig = None
        /\ ~ctx[current[k]].ksig_restore


\* the signal state of a context
SignalState(c) ==
    CASE c.ksig = None /\ ~c.ksig_restore -> "none"
      [] c.ksig # None /\ ~c.ksig_restore -> "delivering"
      [] c.ksig # None /\ c.ksig_restore  -> "restoring"
      [] OTHER                            -> "broken"

\* C34: every context is in one of the signal states none, delivering
\* (ksig set) and restoring (ksig set and ksig_restore): no context has
\* ksig_restore set with ksig empty, and the restore step of the update
\* pass never panics.
C34_SignalStates ==
    /\ ~panic
    /\ \A c \in DOMAIN ctx :
          SignalState(ctx[c]) \in {"none", "delivering", "restoring"}

\* an update pass has taken a context from restoring to none while another
\* signal is pending for it
C34_Witness ==
    \E k \in Cpus : \E c \in restored :
        /\ pc[k] = "updated"
        /\ SignalState(ctx[c]) = "none"
        /\ ctx[c].pending # << >>


HookRuns(k) == pc[k] = "hook" /\ pc'[k] = "run"

\* C32: lock handoff.  From the selection of a target until the finish
\* hook runs, the pending-unlock slot of the CPU names the previous and the
\* next context, both write-locked by this switch(), and the global flag
\* is set; the hook empties the slot and releases both write locks and the
\* flag; a write lock or the flag is held only while a switch() is in
\* progress, and the hook never finds the slot empty.
C32_LockHandoff ==
    /\ []~panic
    /\ [](\A k \in Cpus :
            pc[k] = "hook" =>
                /\ slot[k] # None
                /\ Unwrap(slot[k]).next_lock = current[k]
                /\ Unwrap(slot[k]).prev_lock # current[k]
                /\ wlock[Unwrap(slot[k]).prev_lock] = Some(k)
                /\ wlock[Unwrap(slot[k]).next_lock] = Some(k)
                /\ lock)
    /\ [](\A k \in Cpus : pc[k] # "hook" => slot[k] = None)
    /\ [](\A c \in Ids : \A k \in wlock[c] : InSwitch(k))
    /\ [](lock => \E k \in Cpus : InSwitch(k))
    /\ [][\A k \in Cpus :
            HookRuns(k) =>
                /\ slot'[k] = None
                /\ wlock'[Unwrap(slot[k]).prev_lock] = None
                /\ wlock'[Unwrap(slot[k]).next_lock] = None
                /\ ~lock']_vars

\* a switch() that selected a target is complete: nothing is left held
C32_Witness ==
    \E k \in Cpus :
        /\ ret[k] = "true"
        /\ pc[k] = "run"
        /\ ~lock
        /\ slot[k] = None
        /\ \A c \in Ids : wlock[c] = None
        /\ \A j \in Cpus : ~InSwitch(j)

\* a server blocked in read() with nothing queued, after unmount() ran
UnmountedWhileBlocked ==
    srv.pc = "blocked" /\ unmounting /\ todo = << >>

\* C36 as stated: a server blocked in read() with an empty todo queue when
\* unmount() is called is woken and its read() returns 0, not EINTR, also
\* when the flag was false when read() sampled it.
C36_AsStated ==
    UnmountedWhileBlocked ~> (srv.pc = "idle" /\ srv.rd.res = Ok(0))

\* C36: a server blocked in read() when unmount() is called is woken and
\* its read() returns 0, not EINTR, unless a call that had passed the
\* unmounting check pushed a packet meanwhile, when it may return that
\* packet instead; also when the flag was false when read() sampled it.
C36_UnmountWakes ==
    /\ (srv.pc = "blocked" /\ unmounting) ~> (srv.pc = "idle")
    /\ [][(srv.pc = "blocked" /\ unmounting /\ srv'.pc = "idle") =>
              \/ srv'.rd.res = Ok(0) /\ todo' = todo
              \/ /\ todo # << >>
                 /\ PositiveMultiple(srv'.rd.res)
                 /\ todo' # todo]_vars

\* the server sleeps in a blocking read, the flag was set meanwhile and
\* the server was woken
C36_Witness ==
    UnmountedWhileBlocked /\ srv.intr /\ ~nonblock

\* C37 as stated: each stop of a tracee enqueues exactly one PtraceEvent:
\* from the call of breakpoint_callback until it returns the queue grows
\* by one event, also when the tracee's sleep is interrupted and the
\* callback goes round its loop: a stop appends its one event, and a call
\* that has stopped the tracee does not stop it again.
C37_AsStated ==
    [][TraceeStops =>
          /\ sdata'[te.s].events = Append(sdata[te.s].events, te.m)
          /\ ~te.stopped]_vars

\* a step of add_file_min overwrote no occupied slot
KeptOccupied ==
    \A i \in 1 .. Len(files) : files[i] # None => files'[i] = files[i]

\* C40 as stated: add_file_min is atomic with respect to the contexts
\* that share the file table: under any interleaving with their inserts
\* and removes, add_file_min(f, m) returns None only if at some instant
\* during the call no index in [m, CONTEXT_MAX_FILES) was free, and it
\* never overwrites an occupied slot.
C40_AsStated ==
    /\ []((sh.called /\ sh.ret = None) => sh.nofree)
    /\ [][sh'.by = "add" => KeptOccupied]_vars

\* the caller's fmap_inner has returned
FmapReturned(c) == cl[c].pc = "idle" /\ cl[c].id # 0

\* C38 as stated: the pending-fmap table holds an entry for an id only
\* while that fmap request is outstanding: after fmap_inner returns with any
\* outcome (success, server error, or ENODEV because the scheme is
\* unmounting) the table no longer contains the id it allocated.
C38_AsStated ==
    \A c \in Callers : FmapReturned(c) => cl[c].id \notin fmaptab

\* C39 as stated: a caller's result is always a completion written after
\* its packet was enqueued: a completion the server writes for a non-zero
\* id that no outstanding request uses (not yet allocated, or written a
\* second time) does not stay in the completion map and is not delivered
\* to a later caller.
C39_AsStated ==
    \A id \in DOMAIN done :
        \E c \in Callers : cl[c].pc = "wait" /\ cl[c].id = id

\* the place of the last packet of the sequence with the id, or 0
LastAt(pkts, id) ==
    LET at == {i \in 1 .. Len(pkts) : pkts[i].id = id}
    IN IF at = {} THEN 0 ELSE CHOOSE i \in at : \A j \in at : j <= i

\* the server's write() ran in this step
WriteStep == cl' = cl /\ unmounting' = unmounting

====
